---- MODULE Spec2Model ----
(***************************************************************************)
(* A model of the in-memory shell of v.midrai.cn: the command dispatcher   *)
(* (class CLI) and the interactive line editor (class FakeShell).          *)
(*                                                                         *)
(* Text is modelled as a sequence of one-character strings, so that        *)
(* trimming, tokenizing and matching work on characters as the code does.  *)
(***************************************************************************)
EXTENDS Integers, Sequences, FiniteSets, TLC

(***************************************************************************)
(* Characters and strings                                                  *)
(***************************************************************************)

\* The white space String.prototype.trim and the regular expression class \s
\* remove or match, as far as the model's alphabet has it.
WhiteSpace == {" ", "\t"}

Letters ==
  {"a","b","c","d","e","f","g","h","i","j","k","l","m","n","o","p","q","r",
   "s","t","u","v","w","x","y","z","A","B","C","D","E","F","G","H","I","J",
   "K","L","M","N","O","P","Q","R","S","T","U","V","W","X","Y","Z","_"}

Digits == {"0","1","2","3","4","5","6","7","8","9"}

RECURSIVE Concat(_)
\* The concatenation of a sequence of strings.
Concat(ss) == IF ss = <<>> THEN <<>> ELSE Head(ss) \o Concat(Tail(ss))

\* s.slice(from) with 0-based from.
SliceFrom(s, from) == SubSeq(s, from + 1, Len(s))

\* s.slice(0, to) with 0-based exclusive to.
SliceTo(s, to) == SubSeq(s, 1, to)

RECURSIVE TrimStart(_)
TrimStart(s) ==
  IF s # <<>> /\ Head(s) \in WhiteSpace THEN TrimStart(Tail(s)) ELSE s

RECURSIVE TrimEnd(_)
TrimEnd(s) ==
  IF s # <<>> /\ s[Len(s)] \in WhiteSpace
    THEN TrimEnd(SubSeq(s, 1, Len(s) - 1))
    ELSE s

\* String.prototype.trim
Trim(s) == TrimEnd(TrimStart(s))

\* s.indexOf(c), 0-based, -1 when absent
IndexOf(s, c) ==
  IF \E i \in 1..Len(s) : s[i] = c
    THEN (CHOOSE i \in 1..Len(s) : s[i] = c /\ \A j \in 1..(i - 1) : s[j] # c) - 1
    ELSE -1

\* /^[A-Za-z_][A-Za-z0-9_]*$/
IsIdentifier(s) ==
  /\ s # <<>>
  /\ s[1] \in Letters
  /\ \A i \in 1..Len(s) : s[i] \in Letters \cup Digits

\* The length of the longest prefix of s whose characters are all in set.
RECURSIVE PrefixLen(_, _)
PrefixLen(s, set) ==
  IF s # <<>> /\ Head(s) \in set THEN 1 + PrefixLen(Tail(s), set) ELSE 0

\* The length of the longest prefix of s with no character in set.
RECURSIVE PrefixLenNot(_, _)
PrefixLenNot(s, set) ==
  IF s # <<>> /\ Head(s) \notin set THEN 1 + PrefixLenNot(Tail(s), set) ELSE 0

(***************************************************************************)
(* CLI: tokenizer and parser                                               *)
(***************************************************************************)

\* inQuote = null
NoQuote == "none"

TokInit == [tokens |-> <<>>, current |-> <<>>, inQuote |-> NoQuote, escaped |-> FALSE]

\* A space ends the token inside quotes too.
TokStepSplitsQuoted(st, ch) ==
  IF st.escaped
    THEN [st EXCEPT !.current = Append(@, ch), !.escaped = FALSE]
  ELSE IF ch = "\\"
    THEN [st EXCEPT !.escaped = TRUE]
  ELSE IF ch = "\"" \/ ch = "'"
    THEN IF st.inQuote = NoQuote THEN [st EXCEPT !.inQuote = ch]
         ELSE IF st.inQuote = ch THEN [st EXCEPT !.inQuote = NoQuote]
         ELSE [st EXCEPT !.current = Append(@, ch)]
  ELSE IF ch = " "
    THEN IF st.current # <<>>
           THEN [st EXCEPT !.tokens = Append(@, st.current), !.current = <<>>]
           ELSE st
  ELSE [st EXCEPT !.current = Append(@, ch)]

\* One iteration of the loop of CLI.tokenize over the character ch.
TokStep(st, ch) ==
  IF st.escaped
    THEN [st EXCEPT !.current = Append(@, ch), !.escaped = FALSE]
  ELSE IF ch = "\\"
    THEN [st EXCEPT !.escaped = TRUE]
  ELSE IF ch = "\"" \/ ch = "'"
    THEN IF st.inQuote = NoQuote THEN [st EXCEPT !.inQuote = ch]
         ELSE IF st.inQuote = ch THEN [st EXCEPT !.inQuote = NoQuote]
         ELSE [st EXCEPT !.current = Append(@, ch)]
  ELSE IF ch = " " /\ st.inQuote = NoQuote
    THEN IF st.current # <<>>
           THEN [st EXCEPT !.tokens = Append(@, st.current), !.current = <<>>]
           ELSE st
  ELSE [st EXCEPT !.current = Append(@, ch)]

RECURSIVE TokRun(_, _)
TokRun(st, s) == IF s = <<>> THEN st ELSE TokRun(TokStep(st, Head(s)), Tail(s))

\* CLI.tokenize
tokenize(input) ==
  LET st == TokRun(TokInit, input)
  IN  IF st.current # <<>> THEN Append(st.tokens, st.current) ELSE st.tokens

\* token.startsWith('--')
IsLongFlag(token) == Len(token) >= 2 /\ token[1] = "-" /\ token[2] = "-"

\* token.startsWith('-') && token.length > 1
IsShortFlags(token) == Len(token) > 1 /\ token[1] = "-"

RECURSIVE ParseArgsDashIsFlag(_)
\* A single '-' is taken for a flag as well.
ParseArgsDashIsFlag(tokens) ==
  IF tokens = <<>> THEN <<>>
  ELSE IF Head(tokens) # <<>> /\ Head(tokens)[1] = "-"
    THEN ParseArgsDashIsFlag(Tail(tokens))
    ELSE <<Head(tokens)>> \o ParseArgsDashIsFlag(Tail(tokens))

RECURSIVE ParseArgs(_)
\* The positional arguments among the tokens after the command name.
ParseArgs(tokens) ==
  IF tokens = <<>> THEN <<>>
  ELSE IF IsLongFlag(Head(tokens)) \/ IsShortFlags(Head(tokens))
    THEN ParseArgs(Tail(tokens))
    ELSE <<Head(tokens)>> \o ParseArgs(Tail(tokens))

\* The flag set built from the tokens after the command name.
ParseFlags(tokens) ==
  UNION { IF IsLongFlag(tokens[i]) THEN {SliceFrom(tokens[i], 2)}
          ELSE IF IsShortFlags(tokens[i])
            THEN { <<tokens[i][j]>> : j \in 2..Len(tokens[i]) }
          ELSE {} : i \in 1..Len(tokens) }

\* CLI.parseInput
parseInput(input) ==
  LET tokens == tokenize(input)
  IN  [command |-> IF tokens = <<>> THEN <<>> ELSE tokens[1],
       args    |-> IF tokens = <<>> THEN <<>> ELSE ParseArgs(Tail(tokens)),
       flags   |-> IF tokens = <<>> THEN {} ELSE ParseFlags(Tail(tokens))]

(***************************************************************************)
(* VFS: the part of the virtual file system the dispatcher and the cd      *)
(* command use.  The tree is a function from a node's path, the sequence   *)
(* of names from the root, to the node's type and content; the root is the *)
(* empty path.                                                             *)
(***************************************************************************)

RECURSIVE Split(_, _)
\* s.split(sep) for a one-character separator
Split(s, sep) ==
  LET i == IndexOf(s, sep)
  IN  IF i = -1 THEN <<s>>
      ELSE <<SliceTo(s, i)>> \o Split(SliceFrom(s, i + 1), sep)

RECURSIVE Join(_, _)
\* parts.join(sep)
Join(parts, sep) ==
  IF parts = <<>> THEN <<>>
  ELSE IF Len(parts) = 1 THEN parts[1]
  ELSE parts[1] \o sep \o Join(Tail(parts), sep)

RECURSIVE NormalizeLoop(_, _)
\* The loop of normalizePath: '..' pops the last retained part, if any.
NormalizeLoop(parts, result) ==
  IF parts = <<>> THEN result
  ELSE IF Head(parts) = <<".", ".">>
    THEN NormalizeLoop(Tail(parts),
                       IF result = <<>> THEN <<>> ELSE SubSeq(result, 1, Len(result) - 1))
    ELSE NormalizeLoop(Tail(parts), Append(result, Head(parts)))

\* A '..' part is kept like a name.
normalizePathKeepsParent(path) ==
  LET Keep(q) == q # <<>> /\ q # <<".">>
  IN  <<"/">> \o Join(SelectSeq(Split(path, "/"), Keep), <<"/">>)

\* VFS.normalizePath
normalizePath(path) ==
  LET Keep(q) == q # <<>> /\ q # <<".">>
      parts == SelectSeq(Split(path, "/"), Keep)
  IN  <<"/">> \o Join(NormalizeLoop(parts, <<>>), <<"/">>)

GuestHome == <<"/","h","o","m","e","/","g","u","e","s","t">>

\* A relative path is put after the current path as it is.
resolvePathAppended(currentPath, path) ==
  IF path = <<>> \/ path = <<"~">> THEN GuestHome
  ELSE IF path[1] = "/" THEN normalizePath(path)
  ELSE currentPath \o <<"/">> \o path

\* VFS.resolvePath, with currentPath the field _currentPath
resolvePath(currentPath, path) ==
  IF path = <<>> \/ path = <<"~">> THEN GuestHome
  ELSE IF path[1] = "/" THEN normalizePath(path)
  ELSE normalizePath(currentPath \o <<"/">> \o path)

\* VFS.createNode: the fields of a FileNode that the program reads.  parent
\* is the reference to the parent node, held as the one-element sequence of
\* the parent's place in the tree, and the empty sequence for null.
createNode(type, name, parent, content) ==
  [type |-> type, name |-> name, parent |-> parent, content |-> content]

\* FileNode | null
Null == createNode("null", <<>>, <<>>, <<>>)

RECURSIVE WalkNode(_, _, _)
\* The loop of getNode: from the node at path cur, descend through parts.
WalkNode(tree, cur, parts) ==
  IF parts = <<>> THEN tree[cur]
  ELSE IF Append(cur, Head(parts)) \notin DOMAIN tree THEN Null
  ELSE WalkNode(tree, Append(cur, Head(parts)), Tail(parts))

\* VFS.getNode
getNode(tree, currentPath, path) ==
  LET resolvedPath == resolvePath(currentPath, path)
      NonEmpty(q) == q # <<>>
  IN  IF resolvedPath = <<"/">> THEN tree[<<>>]
      ELSE WalkNode(tree, <<>>, SelectSeq(Split(resolvedPath, "/"), NonEmpty))

\* VFS.cd: the success flag and the current path afterwards
vfsCd(tree, currentPath, path) ==
  LET resolvedPath == resolvePath(currentPath, path)
      node == getNode(tree, currentPath, resolvedPath)
  IN  IF node = Null \/ node.type # "directory"
        THEN [ok |-> FALSE, currentPath |-> currentPath]
        ELSE [ok |-> TRUE, currentPath |-> resolvedPath]

\* The node the constructor makes the root: createNode('directory', '', null)
RootNode == createNode("directory", <<>>, <<>>, <<>>)

\* The tree the constructor builds (initDefaultStructure): each directory and
\* file is made by mkdir and writeFile, under its name and with its parent.
DefaultTree ==
  LET bin == <<"b","i","n">>       etc == <<"e","t","c">>
      home == <<"h","o","m","e">>  tmp == <<"t","m","p">>
      usr == <<"u","s","r">>       var == <<"v","a","r">>
      root == <<"r","o","o","t">>  proc == <<"p","r","o","c">>
      guest == <<"g","u","e","s","t">>
      Dir(parent, name) == Append(parent, name) :> createNode("directory", name, <<parent>>, <<>>)
      File(parent, name, content) ==
        Append(parent, name) :> createNode("file", name, <<parent>>, content)
  IN  ( <<>> :> RootNode ) @@
      Dir(<<>>, bin) @@ Dir(<<>>, etc) @@ Dir(<<>>, home) @@ Dir(<<>>, tmp) @@
      Dir(<<>>, usr) @@ Dir(<<>>, var) @@ Dir(<<>>, root) @@ Dir(<<>>, proc) @@
      Dir(<<home>>, guest) @@
      File(<<etc>>, <<"h","o","s","t","n","a","m","e">>, <<"m","i","d","r","a","i","\n">>) @@
      File(<<etc>>, <<"m","o","t","d">>,
           <<"W","e","l","c","o","m","e"," ","t","o"," ","M","i","d","r","a","i"," ",
             "T","e","r","m","i","n","a","l","!","\n">>) @@
      File(<<home, guest>>, <<".","b","a","s","h","r","c">>,
           <<"#"," ",".","b","a","s","h","r","c","\n","e","x","p","o","r","t"," ",
             "P","S","1","=","\"","\\","u","@","\\","h",":","\\","w","\\","$"," ",
             "\"","\n">>) @@
      File(<<home, guest>>, <<"r","e","a","d","m","e",".","t","x","t">>,
           <<"W","e","l","c","o","m","e"," ","t","o"," ","t","h","e"," ","f","a","k",
             "e"," ","t","e","r","m","i","n","a","l","!","\n","\n","T","r","y"," ",
             "t","y","p","i","n","g"," ","s","o","m","e"," ","c","o","m","m","a","n",
             "d","s"," ","l","i","k","e",":","\n"," "," ","l","s",","," ","c","d",",",
             " ","p","w","d",","," ","c","a","t",","," ","e","c","h","o",","," ","m",
             "k","d","i","r",","," ","t","o","u","c","h",","," ","r","m","\n">>)

(***************************************************************************)
(* CLI.execute                                                             *)
(***************************************************************************)

\* The names getBuiltInCommands registers.
BuiltInCommands ==
  { <<"l","s">>, <<"c","d">>, <<"p","w","d">>, <<"c","a","t">>,
    <<"e","c","h","o">>, <<"m","k","d","i","r">>, <<"t","o","u","c","h">>,
    <<"r","m">>, <<"c","l","e","a","r">>, <<"h","e","l","p">>,
    <<"w","h","o","a","m","i">>, <<"d","a","t","e">>,
    <<"h","i","s","t","o","r","y">> }

\* The environment the FakeShell constructor builds from default options.
DefaultEnv ==
  ( <<"U","S","E","R">> :> <<"g","u","e","s","t">> ) @@
  ( <<"H","O","S","T","N","A","M","E">> :> <<"m","i","d","r","a","i">> ) @@
  ( <<"H","O","M","E">> :> GuestHome ) @@
  ( <<"P","A","T","H">> :>
      <<"/","u","s","r","/","l","o","c","a","l","/","b","i","n",":","/","u","s","r",
        "/","b","i","n",":","/","b","i","n">> ) @@
  ( <<"P","W","D">> :> GuestHome )

\* An object with no own properties ({}).
EmptyEnv == [k \in {} |-> <<>>]

\* env[key], with undefined read as the empty string (both are falsy).
EnvGet(env, key) == IF key \in DOMAIN env THEN env[key] ELSE <<>>

\* env[key] = value
EnvSet(env, key, value) == (key :> value) @@ env

\* trimmed.match(/^([A-Za-z_][A-Za-z0-9_]*)=(\S+)\s+(.+)$/): the groups 1, 2, 3
AssignmentMatch(trimmed) ==
  LET n        == PrefixLen(trimmed, Letters \cup Digits)
      afterEq  == SliceFrom(trimmed, n + 1)
      v        == PrefixLenNot(afterEq, WhiteSpace)
      afterVal == SliceFrom(afterEq, v)
      w        == PrefixLen(afterVal, WhiteSpace)
      rest     == SliceFrom(afterVal, w)
  IN  IF /\ n >= 1
         /\ trimmed[1] \in Letters
         /\ Len(trimmed) > n
         /\ trimmed[n + 1] = "="
         /\ v >= 1
         /\ w >= 1
         /\ rest # <<>>
        THEN [matched |-> TRUE, name |-> SliceTo(trimmed, n),
              value |-> SliceTo(afterEq, v), rest |-> rest]
        ELSE [matched |-> FALSE, name |-> <<>>, value |-> <<>>, rest |-> <<>>]

\* str.replace(/["']/g, '')
StripQuotes(str) == SelectSeq(str, LAMBDA c : c # "\"" /\ c # "'")

\* The guard of the environment assignment of execute: the line has a '=' and
\* does not start with a letter or underscore.
AssignmentGuard(trimmed) ==
  /\ IndexOf(trimmed, "=") >= 0
  /\ ~ (trimmed # <<>> /\ trimmed[1] \in Letters)

\* The environment assignment of execute: whether the line is stored as a
\* variable, and the name and value stored.
PersistentAssignment(trimmed) ==
  LET eq      == IndexOf(trimmed, "=")
      varName == SliceTo(trimmed, eq)
  IN  IF AssignmentGuard(trimmed) /\ IsIdentifier(varName)
        THEN [applies |-> TRUE, name |-> varName,
              value |-> StripQuotes(SliceFrom(trimmed, eq + 1))]
        ELSE [applies |-> FALSE, name |-> <<>>, value |-> <<>>]

\* { ...localEnv, ...this.env }: the global value wins over the override.
ContextEnvReversed(env, localEnv) == env @@ localEnv

\* { ...this.env, ...localEnv }
ContextEnv(env, localEnv) == localEnv @@ env

\* A lookup that never misses.
HasCommandAlways(commands, command) == TRUE

\* this.commands.get(command) is defined
HasCommand(commands, command) == command \in commands

\* A line the output sink received: the operation called and its text.
OutLine(op, text) == [op |-> op, text |-> text]

NotFoundText == <<":"," ","c","o","m","m","a","n","d"," ","n","o","t"," ","f","o","u","n","d">>

\* The status of an unknown command.
NotFoundStatus == 127

NoContext == [env |-> EmptyEnv, cwd |-> <<>>, args |-> <<>>, flags |-> {}]

\* CLI.execute up to the call of the handler: what the line is (kind), the
\* status returned when no handler runs, the global environment afterwards,
\* the lines written, and the command name and context of the handler call.
Dispatch(input, env, commands, currentPath) ==
  LET trimmed     == Trim(input)
      m           == AssignmentMatch(trimmed)
      localEnv    == IF m.matched THEN (m.name :> m.value) ELSE EmptyEnv
      commandLine == IF m.matched THEN m.rest ELSE trimmed
      p           == parseInput(commandLine)
      a           == PersistentAssignment(trimmed)
      none(kind, status, newEnv, out) ==
        [kind |-> kind, status |-> status, env |-> newEnv, out |-> out,
         command |-> p.command, context |-> NoContext]
  IN  IF trimmed = <<>> THEN
        [kind |-> "empty", status |-> 0, env |-> env, out |-> <<>>,
         command |-> <<>>, context |-> NoContext]
      ELSE IF p.command = <<>> THEN none("empty", 0, env, <<>>)
      ELSE IF a.applies THEN none("assign", 0, EnvSet(env, a.name, a.value), <<>>)
      ELSE IF ~ HasCommand(commands, p.command) THEN
        none("notfound", NotFoundStatus, env,
             << OutLine("error", p.command \o NotFoundText) >>)
      ELSE
        [kind |-> "invoke", status |-> 0, env |-> env, out |-> <<>>,
         command |-> p.command,
         context |-> [env |-> ContextEnv(env, localEnv), cwd |-> currentPath,
                      args |-> p.args, flags |-> p.flags]]

\* A value a handler throws: an Error with a message, or something else.
ErrorValue(message) == [isError |-> TRUE, message |-> message]

NotAnError == [isError |-> FALSE, message |-> <<>>]

\* The catch clause of execute: the promise settles as fulfilled with status 1
\* after one error line.
CatchHandlerFault(command, error) ==
  [state |-> "fulfilled", status |-> 1,
   out |-> << OutLine("error",
                command \o <<":"," ">> \o
                (IF error.isError THEN error.message
                 ELSE <<"U","n","k","n","o","w","n"," ","e","r","r","o","r">>)) >>]

\* A rejection of the promise the handler returned, without the await of
\* 'return await cmd.execute(context)': it settles the promise of execute.
RejectionEscapes(command, error) ==
  [state |-> "rejected", status |-> 0, out |-> <<>>]

\* 'return await cmd.execute(context)' inside the try block: a rejection of
\* the promise the handler returned is thrown into the catch clause.
AwaitRejection(command, error) == CatchHandlerFault(command, error)

\* cd.execute: the status, the lines written and the current path afterwards.
cdExecute(context, tree, currentPath) ==
  LET path == IF context.args # <<>> /\ context.args[1] # <<>>
                THEN context.args[1]
                ELSE EnvGet(context.env, <<"H","O","M","E">>)
      r    == vfsCd(tree, currentPath, path)
  IN  IF ~ r.ok
        THEN [status |-> 1, currentPath |-> r.currentPath,
              out |-> << OutLine("error",
                           <<"c","d",":"," ">> \o path \o
                           <<":"," ","N","o"," ","s","u","c","h"," ","f","i","l","e"," ",
                             "o","r"," ","d","i","r","e","c","t","o","r","y">>) >>]
        ELSE [status |-> 0, currentPath |-> r.currentPath, out |-> <<>>]

(***************************************************************************)
(* State                                                                   *)
(***************************************************************************)

(***************************************************************************)
(* CLI.complete                                                            *)
(***************************************************************************)

\* s.startsWith(prefix)
StartsWith(s, prefix) == Len(prefix) <= Len(s) /\ SubSeq(s, 1, Len(prefix)) = prefix

\* s.lastIndexOf(c), 0-based, -1 when absent
LastIndexOf(s, c) ==
  IF \E i \in 1..Len(s) : s[i] = c
    THEN (CHOOSE i \in 1..Len(s) : s[i] = c /\ \A j \in (i + 1)..Len(s) : s[j] # c) - 1
    ELSE -1

\* The path of names from the root that a resolved path spells.
NodeKey(resolvedPath) ==
  LET NonEmpty(q) == q # <<>>
  IN  SelectSeq(Split(resolvedPath, "/"), NonEmpty)

\* node.children: the paths of the children of the node at key
Children(tree, key) ==
  { q \in DOMAIN tree : Len(q) = Len(key) + 1 /\ SubSeq(q, 1, Len(key)) = key }

\* VFS.ls: null, or the entries of the directory by name and type
vfsLs(tree, currentPath, path) ==
  LET targetPath == IF path # <<>> THEN resolvePath(currentPath, path) ELSE currentPath
      node == getNode(tree, currentPath, targetPath)
  IN  IF node = Null \/ node.type # "directory"
        THEN [isNull |-> TRUE, entries |-> {}]
        ELSE [isNull |-> FALSE,
              entries |-> { [name |-> q[Len(q)], type |-> tree[q].type] :
                            q \in Children(tree, NodeKey(targetPath)) }]

\* name + (type === 'directory' ? '/' : '')
SlashedName(e) == e.name \o (IF e.type = "directory" THEN <<"/">> ELSE <<>>)

\* The complete function of ls, and of rm
lsComplete(partial, tree, currentPath) ==
  { SlashedName(e) :
      e \in { e \in vfsLs(tree, currentPath, <<".">>).entries : StartsWith(e.name, partial) } }

\* The complete function of cd
cdComplete(partial, tree, currentPath) ==
  { e.name \o <<"/">> :
      e \in { e \in vfsLs(tree, currentPath, <<".">>).entries :
                e.type = "directory" /\ StartsWith(e.name, partial) } }

\* The complete function of cat
catComplete(partial, tree, currentPath) ==
  { e.name :
      e \in { e \in vfsLs(tree, currentPath, <<".">>).entries :
                e.type = "file" /\ StartsWith(e.name, partial) } }

\* The complete function of touch
touchComplete(partial, tree, currentPath) ==
  { e.name :
      e \in { e \in vfsLs(tree, currentPath, <<".">>).entries : StartsWith(e.name, partial) } }

\* The built-in commands whose definition has a complete function.
CompletingCommands ==
  { <<"l","s">>, <<"r","m">>, <<"c","d">>, <<"c","a","t">>, <<"t","o","u","c","h">> }

\* cmd.complete(lastArg, context)
CommandComplete(command, partial, tree, currentPath) ==
  IF command = <<"c","d">> THEN cdComplete(partial, tree, currentPath)
  ELSE IF command = <<"c","a","t">> THEN catComplete(partial, tree, currentPath)
  ELSE IF command = <<"t","o","u","c","h">> THEN touchComplete(partial, tree, currentPath)
  ELSE lsComplete(partial, tree, currentPath)

\* The default file completion of CLI.complete
FileComplete(lastArg, tree, currentPath) ==
  LET slash == LastIndexOf(lastArg, "/")
      path == IF slash # -1 THEN SliceTo(lastArg, slash + 1) ELSE <<".">>
      prefix == IF slash # -1 THEN SliceFrom(lastArg, slash + 1) ELSE lastArg
      entries == { e \in vfsLs(tree, currentPath, path).entries : StartsWith(e.name, prefix) }
  IN  { IF slash # -1 THEN path \o SlashedName(e) ELSE SlashedName(e) : e \in entries }

\* CLI.complete: the candidates.  The code returns them as an array without
\* duplicates; handleTab uses its length and, of one candidate, the element.
complete(input, registry, tree, currentPath) ==
  LET parsed == parseInput(input)
      args == parsed.args
      lastArg == IF args = <<>> THEN <<>> ELSE args[Len(args)]
  IN  IF args = <<>> /\ ~ (input # <<>> /\ input[Len(input)] = " ")
        THEN { cmd \in registry : StartsWith(cmd, parsed.command) }
      ELSE IF parsed.command \in registry /\ parsed.command \in CompletingCommands
        THEN CommandComplete(parsed.command, lastArg, tree, currentPath)
      ELSE FileComplete(lastArg, tree, currentPath)

(***************************************************************************)
(* VFS: the methods that read and change the tree                          *)
(***************************************************************************)

\* resolvedPath.substring(0, resolvedPath.lastIndexOf('/')) || '/'
ParentPath(resolvedPath) ==
  LET sub == SliceTo(resolvedPath, LastIndexOf(resolvedPath, "/"))
  IN  IF sub = <<>> THEN <<"/">> ELSE sub

\* resolvedPath.substring(resolvedPath.lastIndexOf('/') + 1)
BaseName(resolvedPath) == SliceFrom(resolvedPath, LastIndexOf(resolvedPath, "/") + 1)

\* The place in the tree of the entry that the map parent.children holds
\* under the last name of resolvedPath; the name is empty for the path '/'.
ChildKey(resolvedPath) ==
  Append(NodeKey(ParentPath(resolvedPath)), BaseName(resolvedPath))

\* key is the place k or a place below it.
Under(k, key) == Len(key) >= Len(k) /\ SubSeq(key, 1, Len(k)) = k

\* The tree with the node n set at the place key.
WithNode(tree, key, n) ==
  [q \in DOMAIN tree \cup {key} |-> IF q = key THEN n ELSE tree[q]]

\* The tree without the place key and all below it.
WithoutNode(tree, key) ==
  [q \in { q \in DOMAIN tree : ~ Under(key, q) } |-> tree[q]]

\* The directory is made under a parent of any type.
vfsMkdirUnderFile(tree, currentPath, path) ==
  LET resolvedPath == resolvePath(currentPath, path)
      parent == getNode(tree, currentPath, ParentPath(resolvedPath))
  IN  IF parent = Null
        THEN [ok |-> FALSE, tree |-> tree]
      ELSE IF ChildKey(resolvedPath) \in DOMAIN tree
        THEN [ok |-> FALSE, tree |-> tree]
      ELSE [ok |-> TRUE,
            tree |-> WithNode(tree, ChildKey(resolvedPath),
                       createNode("directory", BaseName(resolvedPath),
                                  << NodeKey(ParentPath(resolvedPath)) >>, <<>>))]

\* VFS.mkdir: the flag returned and the tree afterwards
vfsMkdir(tree, currentPath, path) ==
  LET resolvedPath == resolvePath(currentPath, path)
      parent == getNode(tree, currentPath, ParentPath(resolvedPath))
  IN  IF parent = Null \/ parent.type # "directory"
        THEN [ok |-> FALSE, tree |-> tree]
      ELSE IF ChildKey(resolvedPath) \in DOMAIN tree
        THEN [ok |-> FALSE, tree |-> tree]
      ELSE [ok |-> TRUE,
            tree |-> WithNode(tree, ChildKey(resolvedPath),
                       createNode("directory", BaseName(resolvedPath),
                                  << NodeKey(ParentPath(resolvedPath)) >>, <<>>))]

\* VFS.writeFile: the flag returned and the tree afterwards
vfsWriteFile(tree, currentPath, path, content) ==
  LET resolvedPath == resolvePath(currentPath, path)
      parent == getNode(tree, currentPath, ParentPath(resolvedPath))
      key == ChildKey(resolvedPath)
  IN  IF parent = Null \/ parent.type # "directory"
        THEN [ok |-> FALSE, tree |-> tree]
      ELSE IF key \in DOMAIN tree /\ tree[key].type # "file"
        THEN [ok |-> FALSE, tree |-> tree]
      ELSE IF key \in DOMAIN tree
        THEN [ok |-> TRUE, tree |-> [tree EXCEPT ![key].content = content]]
      ELSE [ok |-> TRUE,
            tree |-> WithNode(tree, key,
                       createNode("file", BaseName(resolvedPath),
                                  << NodeKey(ParentPath(resolvedPath)) >>, content))]

\* VFS.readFile: null, or the content
vfsReadFile(tree, currentPath, path) ==
  LET node == getNode(tree, currentPath, path)
  IN  IF node = Null \/ node.type # "file"
        THEN [isNull |-> TRUE, content |-> <<>>]
        ELSE [isNull |-> FALSE, content |-> node.content]

\* VFS.rm: the flag returned and the tree afterwards
vfsRm(tree, currentPath, path, recursive) ==
  LET resolvedPath == resolvePath(currentPath, path)
      parent == getNode(tree, currentPath, ParentPath(resolvedPath))
      node == getNode(tree, currentPath, resolvedPath)
  IN  IF parent = Null \/ node = Null
        THEN [ok |-> FALSE, tree |-> tree]
      ELSE IF node.type = "directory"
              /\ Children(tree, NodeKey(resolvedPath)) # {} /\ ~ recursive
        THEN [ok |-> FALSE, tree |-> tree]
      ELSE [ok |-> TRUE, tree |-> WithoutNode(tree, ChildKey(resolvedPath))]

RECURSIVE CopyChildren(_, _, _, _, _)
RECURSIVE vfsCp(_, _, _, _, _)
\* The loop of VFS.cp over srcNode.children: each child is copied by cp with
\* the strings `${src}/${name}` and `${dest}/${name}`, and what the call
\* returns is dropped.
CopyChildren(tree, currentPath, src, dest, names) ==
  IF names = {} THEN tree
  ELSE LET name == CHOOSE n \in names : TRUE
           copied == vfsCp(tree, currentPath, src \o <<"/">> \o name,
                           dest \o <<"/">> \o name, TRUE)
       IN  CopyChildren(copied.tree, currentPath, src, dest, names \ {name})

\* VFS.cp: the flag returned and the tree afterwards.  What mkdir and
\* writeFile return is dropped.
vfsCp(tree, currentPath, src, dest, recursive) ==
  LET srcNode == getNode(tree, currentPath, src)
      destPath == resolvePath(currentPath, dest)
      destParent == getNode(tree, currentPath, ParentPath(destPath))
      made == vfsMkdir(tree, currentPath, destPath).tree
      srcKey == NodeKey(resolvePath(currentPath, src))
  IN  IF srcNode = Null
        THEN [ok |-> FALSE, tree |-> tree]
      ELSE IF srcNode.type = "directory" /\ ~ recursive
        THEN [ok |-> FALSE, tree |-> tree]
      ELSE IF destParent = Null \/ destParent.type # "directory"
        THEN [ok |-> FALSE, tree |-> tree]
      ELSE IF srcNode.type = "directory"
        THEN [ok |-> TRUE,
              tree |-> CopyChildren(made, currentPath, src, dest,
                                    { q[Len(q)] : q \in Children(made, srcKey) })]
      ELSE [ok |-> TRUE,
            tree |-> vfsWriteFile(tree, currentPath, destPath, srcNode.content).tree]

\* The loop of cp is over the live map srcNode.children.  When the copy goes
\* to a place inside the directory copied, or the directory copied holds an
\* entry of empty name (which `${src}/${name}` resolves to the directory
\* itself), each round of the recursion adds the entry the next round copies
\* and cp does not return.  CopyEnds holds of the calls that return.
CopyEnds(tree, currentPath, src, dest, recursive) ==
  LET srcNode == getNode(tree, currentPath, src)
      srcKey == NodeKey(resolvePath(currentPath, src))
      destKey == ChildKey(resolvePath(currentPath, dest))
  IN  (srcNode # Null /\ srcNode.type = "directory" /\ recursive)
        => /\ ~ (Under(srcKey, destKey) /\ destKey # srcKey)
           /\ \A q \in DOMAIN tree : Under(srcKey, q) /\ q # srcKey => q[Len(q)] # <<>>

\* VFS.mv: the flag returned and the tree afterwards
vfsMv(tree, currentPath, src, dest) ==
  LET copied == vfsCp(tree, currentPath, src, dest, TRUE)
  IN  IF ~ copied.ok THEN [ok |-> FALSE, tree |-> tree]
      ELSE vfsRm(copied.tree, currentPath, src, TRUE)

(***************************************************************************)
(* The built-in commands mkdir, touch and ls                               *)
(***************************************************************************)

Quote == <<"'">>

RECURSIVE mkdirLoop(_, _, _)
\* The loop of mkdir.execute over args, from the tree, the lines written and
\* the exit code so far.
mkdirLoop(args, currentPath, acc) ==
  IF args = <<>> THEN acc
  ELSE LET r == vfsMkdir(acc.tree, currentPath, Head(args))
       IN  mkdirLoop(Tail(args), currentPath,
             IF r.ok THEN [acc EXCEPT !.tree = r.tree]
             ELSE [status |-> 1, tree |-> r.tree,
                   out |-> Append(acc.out, OutLine("error",
                     <<"m","k","d","i","r",":"," ","c","a","n","n","o","t"," ","c","r","e",
                       "a","t","e"," ","d","i","r","e","c","t","o","r","y"," ">>
                     \o Quote \o Head(args) \o Quote
                     \o <<":"," ","F","i","l","e"," ","e","x","i","s","t","s">>))])

\* mkdir.execute: the status, the lines written and the tree afterwards.
mkdirExecute(context, tree, currentPath) ==
  IF context.args = <<>>
    THEN [status |-> 1, tree |-> tree,
          out |-> << OutLine("error",
                       <<"m","k","d","i","r",":"," ","m","i","s","s","i","n","g"," ",
                         "o","p","e","r","a","n","d">>) >>]
    ELSE mkdirLoop(context.args, currentPath,
                   [status |-> 0, tree |-> tree, out |-> <<>>])

RECURSIVE touchLoop(_, _, _)
\* The loop of touch.execute over args: what writeFile returns is dropped.
touchLoop(args, tree, currentPath) ==
  IF args = <<>> THEN tree
  ELSE LET existing == vfsReadFile(tree, currentPath, Head(args))
           content == IF ~ existing.isNull THEN existing.content ELSE <<>>
       IN  touchLoop(Tail(args),
                     vfsWriteFile(tree, currentPath, Head(args), content).tree,
                     currentPath)

\* No file is made or written.
touchExecuteDry(context, tree, currentPath) ==
  IF context.args = <<>>
    THEN [status |-> 1, tree |-> tree,
          out |-> << OutLine("error",
                       <<"t","o","u","c","h",":"," ","m","i","s","s","i","n","g"," ",
                         "f","i","l","e"," ","o","p","e","r","a","n","d">>) >>]
    ELSE [status |-> 0, tree |-> tree, out |-> <<>>]

\* touch.execute: the status, the lines written and the tree afterwards.
touchExecute(context, tree, currentPath) ==
  IF context.args = <<>>
    THEN [status |-> 1, tree |-> tree,
          out |-> << OutLine("error",
                       <<"t","o","u","c","h",":"," ","m","i","s","s","i","n","g"," ",
                         "f","i","l","e"," ","o","p","e","r","a","n","d">>) >>]
    ELSE [status |-> 0, tree |-> touchLoop(context.args, tree, currentPath),
          out |-> <<>>]

\* colorize(text, color) for the colours blue and green
colorize(text, color) ==
  <<"ESC","[","3">> \o (IF color = "blue" THEN <<"4">> ELSE <<"2">>) \o <<"m">>
    \o text \o <<"ESC","[","0","m">>

\* The order of the characters of names under localeCompare, for the
\* characters the names of the model are made of.
Collation ==
  <<".","0","1","2","3","4","5","6","7","8","9","a","b","c","d","e","f","g","h","i",
    "j","k","l","m","n","o","p","q","r","s","t","u","v","w","x","y","z">>

RECURSIVE NameBefore(_, _)
\* a.localeCompare(b) < 0
NameBefore(a, b) ==
  IF b = <<>> THEN FALSE
  ELSE IF a = <<>> THEN TRUE
  ELSE IF a[1] = b[1] THEN NameBefore(Tail(a), Tail(b))
  ELSE IndexOf(Collation, a[1]) < IndexOf(Collation, b[1])

RECURSIVE SortEntries(_)
\* entries.sort(...): the directories first, and by name among equals.
SortEntries(entries) ==
  IF entries = {} THEN <<>>
  ELSE LET Before(a, b) == IF a.type # b.type THEN a.type = "directory"
                           ELSE NameBefore(a.name, b.name)
           first == CHOOSE a \in entries : \A b \in entries \ {a} : Before(a, b)
       IN  <<first>> \o SortEntries(entries \ {first})

\* ls.execute in the short format: the status and the lines written.
lsExecute(context, tree, currentPath) ==
  LET path == IF context.args # <<>> /\ context.args[1] # <<>>
                THEN context.args[1] ELSE <<".">>
      showAll == <<"a">> \in context.flags \/ <<"a","l","l">> \in context.flags
      listed == vfsLs(tree, currentPath, path)
      Shown(e) == showAll \/ ~ StartsWith(e.name, <<".">>)
      displayEntries == SelectSeq(SortEntries(listed.entries), Shown)
      EndsWithSh(name) == Len(name) >= 3 /\ SliceFrom(name, Len(name) - 3) = <<".","s","h">>
      names == [i \in 1..Len(displayEntries) |->
                  IF displayEntries[i].type = "directory"
                    THEN colorize(displayEntries[i].name, "blue")
                  ELSE IF EndsWithSh(displayEntries[i].name)
                    THEN colorize(displayEntries[i].name, "green")
                  ELSE displayEntries[i].name]
  IN  IF listed.isNull
        THEN [status |-> 2,
              out |-> << OutLine("error",
                           <<"l","s",":"," ","c","a","n","n","o","t"," ","a","c","c","e",
                             "s","s"," ">> \o Quote \o path \o Quote \o
                           <<":"," ","N","o"," ","s","u","c","h"," ","f","i","l","e"," ",
                             "o","r"," ","d","i","r","e","c","t","o","r","y">>) >>]
        ELSE [status |-> 0, out |-> << OutLine("println", Join(names, <<" "," ">>)) >>]

(***************************************************************************)
(* The ExamSystem                                                          *)
(***************************************************************************)

\* dockerExam, the exam the application registers: its trigger, its submit
\* condition with its validation, its initialSetup and its gradingRules.  A
\* property a config leaves out is the empty sequence.
DockerExam ==
  [id          |-> "docker-basic",
   trigger     |-> [command |-> <<"d","o","c","k","e","r">>, subCommand |-> <<"b","u","i","l","d">>],
   submit      |-> [command |-> <<"d","o","c","k","e","r">>, subCommand |-> <<"p","u","s","h">>,
                    argsCount |-> <<1>>, orArgs |-> <<>>, andArgs |-> <<>>],
   directories |-> << <<"/","h","o","m","e","/","g","u","e","s","t","/","d","o","c","k","e","r","-","p","r","o","j","e","c","t">> >>,
   files       |-> << [path    |-> <<"/","h","o","m","e","/","g","u","e","s","t","/","d","o","c","k","e","r","-","p","r","o","j","e","c","t","/","D","o","c","k","e","r","f","i","l","e">>,
                       content |-> <<"F","R","O","M"," ","n","g","i","n","x","\n","C","O","P","Y"," ","."," ","/","u","s","r","/","s","h","a","r","e","/","n","g","i","n","x","/","h","t","m","l">>] >>,
   env         |-> <<>>,
   initialPath |-> <<"/","h","o","m","e","/","g","u","e","s","t","/","d","o","c","k","e","r","-","p","r","o","j","e","c","t">>,
   requiredCommands  |-> << <<"d","o","c","k","e","r"," ","b","u","i","l","d">> >>,
   forbiddenCommands |-> << <<"d","o","c","k","e","r"," ","r","m","i">>, <<"d","o","c","k","e","r"," ","r","m">> >>,
   order       |-> <<>>,
   fileChecks  |-> << [path |-> <<"/","h","o","m","e","/","g","u","e","s","t","/","d","o","c","k","e","r","-","p","r","o","j","e","c","t","/","D","o","c","k","e","r","f","i","l","e">>, shouldExist |-> TRUE] >>]

\* gitExam, the Git workflow example exam.
GitExam ==
  [id          |-> "git-workflow",
   trigger     |-> [command |-> <<"g","i","t">>, subCommand |-> <<"i","n","i","t">>],
   submit      |-> [command |-> <<"g","i","t">>, subCommand |-> <<"c","o","m","m","i","t">>,
                    argsCount |-> <<2>>, orArgs |-> <<>>, andArgs |-> << <<"-","m">> >>],
   directories |-> << <<"/","h","o","m","e","/","g","u","e","s","t","/","m","y","-","p","r","o","j","e","c","t">> >>,
   files       |-> << [path    |-> <<"/","h","o","m","e","/","g","u","e","s","t","/","m","y","-","p","r","o","j","e","c","t","/","R","E","A","D","M","E",".","m","d">>,
                       content |-> <<"#"," ","M","y"," ","P","r","o","j","e","c","t">>] >>,
   env         |-> <<>>,
   initialPath |-> <<"/","h","o","m","e","/","g","u","e","s","t","/","m","y","-","p","r","o","j","e","c","t">>,
   requiredCommands  |-> << <<"g","i","t"," ","i","n","i","t">>, <<"g","i","t"," ","a","d","d">>, <<"g","i","t"," ","c","o","m","m","i","t">> >>,
   forbiddenCommands |-> <<>>,
   order       |-> << <<"g","i","t"," ","i","n","i","t">>, <<"g","i","t"," ","a","d","d">>, <<"g","i","t"," ","c","o","m","m","i","t">> >>,
   fileChecks  |-> << [path |-> <<"/","h","o","m","e","/","g","u","e","s","t","/","m","y","-","p","r","o","j","e","c","t","/",".","g","i","t">>, shouldExist |-> TRUE] >>]

RECURSIVE SplitWhiteSpace(_)
\* s.split(/\s+/) of a trimmed string
SplitWhiteSpace(s) ==
  IF \A i \in 1..Len(s) : s[i] \notin WhiteSpace THEN <<s>>
  ELSE LET i == CHOOSE i \in 1..Len(s) :
                  s[i] \in WhiteSpace /\ \A j \in 1..(i - 1) : s[j] \notin WhiteSpace
       IN  <<SubSeq(s, 1, i - 1)>> \o SplitWhiteSpace(TrimStart(SubSeq(s, i, Len(s))))

\* ExamSystem.parseInput
examParseInput(input) ==
  LET tokens == SplitWhiteSpace(Trim(input))
  IN  [command |-> tokens[1],
       args    |-> ParseArgs(Tail(tokens)),
       flags   |-> ParseFlags(Tail(tokens))]

\* ExamSystem.matchesTrigger for a trigger of a command and a subCommand, and
\* ExamSystem.isSubmitCommand, which compares in the same way.
matchesTrigger(trigger, command, args) ==
  /\ command = trigger.command
  /\ trigger.subCommand # <<>> => (args # <<>> /\ args[1] = trigger.subCommand)

RECURSIVE SetupDirectories(_, _, _)
\* for (const dir of setup.directories || []) vfs.mkdir(dir)
SetupDirectories(dirs, tree, currentPath) ==
  IF dirs = <<>> THEN tree
  ELSE SetupDirectories(Tail(dirs), vfsMkdir(tree, currentPath, Head(dirs)).tree,
                        currentPath)

RECURSIVE SetupFiles(_, _, _)
\* for (const file of setup.files || []) vfs.writeFile(file.path, file.content || '')
SetupFiles(files, tree, currentPath) ==
  IF files = <<>> THEN tree
  ELSE SetupFiles(Tail(files),
                  vfsWriteFile(tree, currentPath, Head(files).path,
                               Head(files).content).tree,
                  currentPath)

RECURSIVE SetupEnv(_, _)
\* for (const [key, value] of Object.entries(setup.env || {})) shell.setEnv(key, value)
SetupEnv(entries, env) ==
  IF entries = <<>> THEN env
  ELSE SetupEnv(Tail(entries), EnvSet(env, Head(entries).key, Head(entries).value))

\* ExamSystem.setupEnvironment: the tree, the global environment and the
\* current path afterwards.
setupEnvironment(config, tree, env, currentPath) ==
  LET made == SetupDirectories(config.directories, tree, currentPath)
      written == SetupFiles(config.files, made, currentPath)
  IN  [tree |-> written,
       env |-> SetupEnv(config.env, env),
       currentPath |-> IF config.initialPath # <<>>
                         THEN vfsCd(written, currentPath, config.initialPath).currentPath
                         ELSE currentPath]

\* String.includes
Includes(s, sub) ==
  \E i \in 0..(Len(s) - Len(sub)) : SubSeq(s, i + 1, i + Len(sub)) = sub

\* history.findIndex((h) => h.includes(cmd)), counted from 0; -1 for none
FindIndex(history, cmd) ==
  LET found == { i \in DOMAIN history : Includes(history[i], cmd) }
  IN  IF found = {} THEN -1
      ELSE (CHOOSE i \in found : \A j \in found : i <= j) - 1

\* A failure message: what was checked and the text it names.
Failure(kind, what) == [kind |-> kind, what |-> what]

RECURSIVE CommandFailures(_, _, _, _)
\* The loops of checkCommandHistory over requiredCommands (executed is to
\* be TRUE) and over forbiddenCommands (executed is to be FALSE).
CommandFailures(history, listed, kind, expected) ==
  IF listed = <<>> THEN <<>>
  ELSE LET executed == \E i \in DOMAIN history : Includes(history[i], Head(listed))
       IN  (IF executed # expected THEN << Failure(kind, Head(listed)) >> ELSE <<>>)
             \o CommandFailures(history, Tail(listed), kind, expected)

RECURSIVE OrderFailures(_, _, _)
\* The loop of checkCommandHistory over rule.order
OrderFailures(history, order, lastIndex) ==
  IF order = <<>> THEN <<>>
  ELSE LET index == FindIndex(history, Head(order))
       IN  (IF index = -1 THEN << Failure("unordered", Head(order)) >>
            ELSE IF index <= lastIndex THEN << Failure("misordered", Head(order)) >>
            ELSE <<>>)
             \o OrderFailures(history, Tail(order), index)

\* ExamSystem.checkCommandHistory: the failures, empty for true.
checkCommandHistory(history, rule) ==
  CommandFailures(history, rule.requiredCommands, "required", TRUE)
    \o CommandFailures(history, rule.forbiddenCommands, "forbidden", FALSE)
    \o (IF Len(rule.order) > 1 THEN OrderFailures(history, rule.order, -1) ELSE <<>>)

\* ExamSystem.checkFile for a rule of a path and shouldExist, which is what
\* the rules of the two exams have: the failures, empty for true.
checkFile(tree, currentPath, rule) ==
  LET exists == getNode(tree, currentPath, rule.path) # Null
  IN  IF rule.shouldExist /\ ~ exists THEN << Failure("missing", rule.path) >>
      ELSE IF ~ rule.shouldExist /\ exists THEN << Failure("present", rule.path) >>
      ELSE <<>>

RECURSIVE FileFailures(_, _, _)
\* The loop of grade over gradingRules.fileChecks
FileFailures(tree, currentPath, rules) ==
  IF rules = <<>> THEN <<>>
  ELSE checkFile(tree, currentPath, Head(rules))
         \o FileFailures(tree, currentPath, Tail(rules))

\* ExamSystem.checkSubmitValidation: the first failure, empty for true.
checkSubmitValidation(args, validation) ==
  LET listed(expected) == \E i \in DOMAIN args : args[i] = expected
      absent == { i \in DOMAIN validation.andArgs : ~ listed(validation.andArgs[i]) }
  IN  IF validation.argsCount # <<>> /\ Len(args) # validation.argsCount[1]
        THEN << Failure("argsCount", <<>>) >>
      ELSE IF /\ validation.orArgs # <<>>
              /\ ~ \E i \in DOMAIN validation.orArgs : listed(validation.orArgs[i])
        THEN << Failure("orArgs", <<>>) >>
      ELSE IF absent # {}
        THEN << Failure("andArgs",
                        validation.andArgs[CHOOSE i \in absent : \A j \in absent : i <= j]) >>
      ELSE <<>>

\* No exam has been graded.
NoResult ==
  [graded |-> FALSE, passed |-> FALSE, commandCheck |-> FALSE, fileCheck |-> FALSE,
   failures |-> <<>>]

\* ExamSystem.grade: the ExamResult for the active exam.
grade(fields, args, tree, currentPath) ==
  LET config == fields.activeExam[1]
      commandFailures == checkCommandHistory(fields.examHistory, config)
      fileFailures == FileFailures(tree, currentPath, config.fileChecks)
      failures == commandFailures \o fileFailures
                    \o checkSubmitValidation(args, config.submit)
      commandCheck == commandFailures = <<>>
      fileCheck == fileFailures = <<>>
  IN  [graded |-> TRUE,
       passed |-> commandCheck /\ fileCheck /\ failures = <<>>,
       commandCheck |-> commandCheck, fileCheck |-> fileCheck,
       failures |-> failures]

\* ExamSystem.endExam
endExam(fields) ==
  [fields EXCEPT !.activeExam = <<>>, !.isInExam = FALSE, !.examHistory = <<>>]

\* startExam without its check of isInExam: a call made while an exam is
\* active replaces the active exam and clears the recorded history.
startExamReplaces(fields, config, tree, env, currentPath) ==
  LET started == [fields EXCEPT !.activeExam = <<config>>, !.isInExam = TRUE,
                                !.examHistory = <<>>]
      setup == setupEnvironment(config, tree, env, currentPath)
  IN  IF ~ fields.attached
        THEN [fields |-> started, tree |-> tree, env |-> env,
              currentPath |-> currentPath, wrote |-> FALSE]
      ELSE [fields |-> started, tree |-> setup.tree, env |-> setup.env,
            currentPath |-> setup.currentPath, wrote |-> TRUE]

\* ExamSystem.startExam: the fields of the ExamSystem, the tree, the global
\* environment and the current path afterwards, and whether lines were
\* written to the terminal.  With no shell attached setupEnvironment raises
\* after the fields were set.
startExam(fields, config, tree, env, currentPath) ==
  LET started == [fields EXCEPT !.activeExam = <<config>>, !.isInExam = TRUE,
                                !.examHistory = <<>>]
      setup == setupEnvironment(config, tree, env, currentPath)
  IN  IF fields.isInExam
        THEN [fields |-> fields, tree |-> tree, env |-> env,
              currentPath |-> currentPath, wrote |-> fields.attached]
      ELSE IF ~ fields.attached
        THEN [fields |-> started, tree |-> tree, env |-> env,
              currentPath |-> currentPath, wrote |-> FALSE]
      ELSE [fields |-> started, tree |-> setup.tree, env |-> setup.env,
            currentPath |-> setup.currentPath, wrote |-> TRUE]

\* ExamSystem.submitExam: the fields afterwards, the result kept in them as
\* showResult and onGraded receive it.  With no shell attached grade raises
\* and the exam is not ended.
submitExam(fields, args, tree, currentPath) ==
  IF ~ fields.isInExam \/ fields.activeExam = <<>> THEN fields
  ELSE IF ~ fields.attached THEN fields
  ELSE endExam([fields EXCEPT !.result = grade(fields, args, tree, currentPath)])

\* ExamSystem.findMatchingExam: the first registered exam whose trigger
\* matches, the empty sequence for null.
findMatchingExam(exams, command, args) ==
  LET matching == { i \in DOMAIN exams : matchesTrigger(exams[i].trigger, command, args) }
  IN  IF matching = {} THEN <<>>
      ELSE << exams[CHOOSE i \in matching : \A j \in matching : i <= j] >>

\* ExamSystem.isSubmitCommand
isSubmitCommand(fields, command, args) ==
  /\ fields.activeExam # <<>>
  /\ matchesTrigger(fields.activeExam[1].submit, command, args)

\* ExamSystem.onCommand with the exams registered: the fields of the
\* ExamSystem, the tree, the global environment and the current path
\* afterwards, and whether lines were written to the terminal.
onCommand(fields, exams, input, tree, env, currentPath) ==
  LET parsed == examParseInput(input)
      same == [fields |-> fields, tree |-> tree, env |-> env,
               currentPath |-> currentPath, wrote |-> FALSE]
      found == findMatchingExam(exams, parsed.command, parsed.args)
  IN  IF ~ fields.attached THEN same
      ELSE IF ~ fields.isInExam
        THEN IF found # <<>>
               THEN startExam(fields, found[1], tree, env, currentPath)
               ELSE same
      ELSE IF isSubmitCommand(fields, parsed.command, parsed.args)
        THEN [same EXCEPT !.fields = submitExam(fields, parsed.args, tree, currentPath),
                          !.wrote = TRUE]
      ELSE [same EXCEPT !.fields = [fields EXCEPT
                                      !.examHistory = Append(@, Trim(input))]]

(***************************************************************************)
(* The prompt and the terminal's cursor column                             *)
(***************************************************************************)

\* PromptManager.formatPath
formatPath(e, path) ==
  LET home == <<"/","h","o","m","e","/">> \o EnvGet(e, <<"U","S","E","R">>)
  IN  IF path = home THEN <<"~">>
      ELSE IF Len(path) > Len(home) /\ SliceTo(path, Len(home) + 1) = home \o <<"/">>
        THEN <<"~">> \o SliceFrom(path, Len(home))
      ELSE path

\* PromptManager.getShortPath
getShortPath(e, path) ==
  LET formatted == formatPath(e, path)
      parts == Split(formatted, "/")
  IN  IF formatted = <<"~">> \/ formatted = <<"/">> THEN formatted
      ELSE IF parts[Len(parts)] # <<>> THEN parts[Len(parts)]
      ELSE <<"/">>

\* PromptManager.generate with the default formatter
generate(e, path) ==
  LET user == EnvGet(e, <<"U","S","E","R">>)
      symbol == IF user = <<"r","o","o","t">> THEN "#" ELSE "$"
  IN  user \o <<"@">> \o EnvGet(e, <<"H","O","S","T","N","A","M","E">>) \o <<":">>
        \o getShortPath(e, formatPath(e, path)) \o <<symbol, " ">>

\* The characters of the model isWideChar takes for wide: "CJK" stands for
\* an ideograph of the range 0x4e00 to 0x9fff.
WideChars == {"CJK"}

\* An ideograph outside the Basic Multilingual Plane, U+20000: a string of
\* two UTF-16 code units, a high and a low surrogate, neither of which is in
\* the ranges of isWideChar.
Astral == <<"HI", "LO">>

RECURSIVE getDisplayWidth(_)
\* FakeShell.getDisplayWidth: for..of takes the string by code points, and
\* charCodeAt(0) of a surrogate pair is its high surrogate.
getDisplayWidth(str) ==
  IF str = <<>> THEN 0
  ELSE IF Len(str) >= 2 /\ SubSeq(str, 1, 2) = Astral
    THEN 1 + getDisplayWidth(SubSeq(str, 3, Len(str)))
  ELSE (IF Head(str) \in WideChars THEN 2 ELSE 1) + getDisplayWidth(Tail(str))

\* The width redrawLine computes for the prompt.
promptWidth(e, path) == getDisplayWidth(generate(e, path))

\* FakeShell.showPrompt: the prompt is written at the cursor's column.
showPrompt(column, width) == column + width

\* FakeShell.redrawLine: the column the cursor is left in after '\r', the
\* prompt, the buffer and the move left to the offset cursor.
redrawLine(buffer, cursor, width) ==
  LET currentPos == width + getDisplayWidth(buffer)
      targetPos == width + getDisplayWidth(SliceTo(buffer, cursor))
  IN  IF targetPos < currentPos THEN currentPos - (currentPos - targetPos)
      ELSE currentPos

\* The column after CSI n D: the cursor stops at the left margin.
CursorBack(column, n) == IF column - n < 0 THEN 0 ELSE column - n

\* The column after CSI n C.
CursorForward(column, n) == column + n

VARIABLES
  env,             \* FakeShell.env, shared with CLI.env: the global environment
  commands,        \* CLI.commands: the registered command names
  tree,            \* VFS.root: the nodes by path
  currentPath,     \* VFS._currentPath
  out,             \* the lines the output sink received in the latest execute
  input,           \* the line a caller of CLI.execute passes
  call,            \* the latest call of CLI.execute and its promise
  inputBuffer,     \* FakeShell.inputBuffer
  cursorPosition,  \* FakeShell.cursorPosition
  commandHistory,  \* FakeShell.commandHistory
  historyIndex,    \* FakeShell.historyIndex
  isProcessing,    \* FakeShell.isProcessing
  pending,         \* the calls of executeCommand suspended at their await
  lastWrite,       \* what the terminal was last given
  lastEvent,       \* the input event or continuation handled last
  termColumn,      \* the column of the terminal's cursor
  vfsCall,         \* the latest call of a method of the VFS and what it returned
  session,         \* the calls of CLI.execute so far: line, status, lines written
  exam,            \* the fields of the ExamSystem and the lines onCommand was called with
  copy             \* the calls of VFS.cp on the call stack, outermost first

cliVars == <<env, commands, tree, currentPath, out, input, call>>

shellVars == <<inputBuffer, cursorPosition, commandHistory, historyIndex,
               isProcessing, pending, lastWrite, lastEvent, termColumn>>

vars == <<env, commands, tree, currentPath, out, input, call, inputBuffer,
          cursorPosition, commandHistory, historyIndex, isProcessing, pending,
          lastWrite, lastEvent, termColumn, vfsCall, session, exam, copy>>

\* No method of the VFS has been called since the constructor.
NoVfsCall ==
  [op |-> "none", path |-> <<>>, dest |-> <<>>, content |-> <<>>, recursive |-> FALSE,
   ok |-> FALSE, isNull |-> FALSE, value |-> <<>>, odd |-> FALSE]

\* The fields after new ExamSystem(options): shell null (attached false),
\* activeExam null (the empty sequence), isInExam false, examHistory empty;
\* no call of a method yet, no exam graded.
NoExam ==
  [attached |-> FALSE, activeExam |-> <<>>, isInExam |-> FALSE, examHistory |-> <<>>,
   observed |-> <<>>, called |-> "constructor", result |-> NoResult]

\* No call of cp is in progress.
NoCopy == [frames |-> <<>>, nodes |-> 0, source |-> 0]

NoCall ==
  [state |-> "idle", status |-> 0, handler |-> FALSE, faulted |-> FALSE,
   fault |-> NotAnError, command |-> <<>>, context |-> NoContext]

\* The state after new FakeShell() and attach(), the prompt shown, with the
\* given registry and the line the dispatcher is to be driven with.
InitWith(registry, lines) ==
  /\ env = DefaultEnv
  /\ commands = registry
  /\ tree = DefaultTree
  /\ currentPath = GuestHome
  /\ out = <<>>
  /\ input \in lines
  /\ call = NoCall
  /\ inputBuffer = <<>>
  /\ cursorPosition = 0
  /\ commandHistory = <<>>
  /\ historyIndex = -1
  /\ isProcessing = FALSE
  /\ pending = <<>>
  /\ lastWrite = "prompt"
  /\ lastEvent = "attach"
  /\ termColumn = showPrompt(0, promptWidth(DefaultEnv, GuestHome))
  /\ vfsCall = NoVfsCall
  /\ session = <<>>
  /\ exam = NoExam
  /\ copy = NoCopy

Init == InitWith(BuiltInCommands, { <<>> })

(***************************************************************************)
(* The dispatcher driven directly.  The line passed to execute is drawn    *)
(* from the concatenations of at most MaxWords words; a behaviour passes   *)
(* its line any number of times, between changes of the environment, the   *)
(* registry and the current directory.                                    *)
(***************************************************************************)

MaxWords == 3

Words ==
  { <<"A","=","1">>, <<"H","O","M","E","=","/">>, <<" ">>, <<"c","d">>, <<"x">>, <<"=">> }

Lines == { Concat(ws) : ws \in UNION { [1..n -> Words] : n \in 0..MaxWords } }

\* The names of the custom commands a caller registers.
CustomCommands == { <<"x">> }

\* The keys and values a caller passes to setEnv.
SetEnvKeys == { <<"A">> }

SetEnvValues == { <<"2">> }

\* The statuses a custom handler returns.
HandlerStatuses == {0, 2}

\* The values a custom handler throws or rejects with.
HandlerErrors == { ErrorValue(<<"b","o","o","m">>), NotAnError }

\* CLI.registerCommand
RegisterCommand(name) ==
  /\ call.state # "running"
  /\ commands' = commands \cup {name}
  /\ UNCHANGED <<env, tree, currentPath, out, input, call>>
  /\ UNCHANGED <<shellVars, vfsCall, session, exam, copy>>

\* FakeShell.setEnv
SetEnv(key, value) ==
  /\ call.state # "running"
  /\ env' = EnvSet(env, key, value)
  /\ UNCHANGED <<commands, tree, currentPath, out, input, call>>
  /\ UNCHANGED <<shellVars, vfsCall, session, exam, copy>>

\* The call record of a settled or suspended execute whose handler, if any,
\* has raised nothing.
CallOf(state, status, handler, d) ==
  [state |-> state, status |-> status, handler |-> handler,
   faulted |-> FALSE, fault |-> NotAnError,
   command |-> d.command, context |-> IF handler THEN d.context ELSE NoContext]

\* execute(input) that returns before any handler: an empty line or command,
\* an environment assignment, an unknown command.
ExecuteNoHandler ==
  LET d == Dispatch(input, env, commands, currentPath)
  IN  /\ call.state # "running"
      /\ d.kind # "invoke"
      /\ env' = d.env
      /\ out' = d.out
      /\ call' = CallOf("fulfilled", d.status, FALSE, d)
      /\ UNCHANGED <<commands, tree, currentPath, input>>
      /\ UNCHANGED <<shellVars, vfsCall, session, exam, copy>>

\* execute(input) that runs the cd command.
ExecuteCd ==
  LET d == Dispatch(input, env, commands, currentPath)
      r == cdExecute(d.context, tree, currentPath)
  IN  /\ call.state # "running"
      /\ d.kind = "invoke"
      /\ d.command = <<"c","d">>
      /\ currentPath' = r.currentPath
      /\ out' = r.out
      /\ call' = CallOf("fulfilled", r.status, TRUE, d)
      /\ UNCHANGED <<env, commands, tree, input>>
      /\ UNCHANGED <<shellVars, vfsCall, session, exam, copy>>

\* execute(input) that runs a custom handler which returns a status at once.
ExecuteCustomReturn(status) ==
  LET d == Dispatch(input, env, commands, currentPath)
  IN  /\ call.state # "running"
      /\ d.kind = "invoke"
      /\ d.command \in CustomCommands
      /\ out' = <<>>
      /\ call' = CallOf("fulfilled", status, TRUE, d)
      /\ UNCHANGED <<env, commands, tree, currentPath, input>>
      /\ UNCHANGED <<shellVars, vfsCall, session, exam, copy>>

\* execute(input) that runs a custom handler which throws at once.
ExecuteCustomThrow(error) ==
  LET d == Dispatch(input, env, commands, currentPath)
      c == CatchHandlerFault(d.command, error)
  IN  /\ call.state # "running"
      /\ d.kind = "invoke"
      /\ d.command \in CustomCommands
      /\ out' = c.out
      /\ call' = [CallOf(c.state, c.status, TRUE, d)
                    EXCEPT !.faulted = TRUE, !.fault = error]
      /\ UNCHANGED <<env, commands, tree, currentPath, input>>
      /\ UNCHANGED <<shellVars, vfsCall, session, exam, copy>>

\* execute(input) that runs a custom handler which returns a pending promise.
ExecuteCustomSuspend ==
  LET d == Dispatch(input, env, commands, currentPath)
  IN  /\ call.state # "running"
      /\ d.kind = "invoke"
      /\ d.command \in CustomCommands
      /\ out' = <<>>
      /\ call' = CallOf("running", 0, TRUE, d)
      /\ UNCHANGED <<env, commands, tree, currentPath, input>>
      /\ UNCHANGED <<shellVars, vfsCall, session, exam, copy>>

\* The promise of the suspended handler fulfils: execute returns its status.
HandlerResolve(status) ==
  /\ call.state = "running"
  /\ call' = [call EXCEPT !.state = "fulfilled", !.status = status]
  /\ UNCHANGED <<env, commands, tree, currentPath, out, input>>
  /\ UNCHANGED <<shellVars, vfsCall, session, exam, copy>>

\* The promise of the suspended handler rejects: the catch clause of execute.
HandlerReject(error) ==
  LET c == AwaitRejection(call.command, error)
  IN  /\ call.state = "running"
      /\ out' = out \o c.out
      /\ call' = [call EXCEPT !.state = c.state, !.status = c.status,
                              !.faulted = TRUE, !.fault = error]
      /\ UNCHANGED <<env, commands, tree, currentPath, input>>
      /\ UNCHANGED <<shellVars, vfsCall, session, exam, copy>>

\* VFS.cd called from outside a command (FakeShell's constructor, a setup hook)
ChangeDirectory(path) ==
  /\ call.state # "running"
  /\ vfsCd(tree, currentPath, path).ok
  /\ currentPath' = vfsCd(tree, currentPath, path).currentPath
  /\ UNCHANGED <<env, commands, tree, out, input, call>>
  /\ UNCHANGED <<shellVars, vfsCall, session, exam, copy>>

\* The directories a caller changes to.
SetupPaths == { <<"/">>, <<"/","t","m","p">> }

NextCLI ==
  \/ \E name \in CustomCommands : RegisterCommand(name)
  \/ \E key \in SetEnvKeys, value \in SetEnvValues : SetEnv(key, value)
  \/ \E path \in SetupPaths : ChangeDirectory(path)
  \/ ExecuteNoHandler
  \/ ExecuteCd
  \/ \E status \in HandlerStatuses : ExecuteCustomReturn(status)
  \/ \E error \in HandlerErrors : ExecuteCustomThrow(error)
  \/ ExecuteCustomSuspend
  \/ \E status \in HandlerStatuses : HandlerResolve(status)
  \/ \E error \in HandlerErrors : HandlerReject(error)

\* The state after construction, with the line to pass drawn from Lines.
InitCLI == InitWith(BuiltInCommands, Lines)

SpecCLI == InitCLI /\ [][NextCLI]_vars

(***************************************************************************)
(* FakeShell: the line editor.  An input event is the string xterm passes  *)
(* to handleInput; the control characters are written by their names       *)
(* ("ESC" for \x1B, "DEL" for \x7F, "BS" for \b, "SOH" for \x01, "ENQ" for *)
(* \x05, "FF" for \x0C, "NAK" for \x15, "ETX" for \x03).                   *)
(***************************************************************************)

\* The characters of the model with a code below 32.
ControlChars == {"ESC", "\r", "BS", "SOH", "ENQ", "FF", "\t", "NAK", "ETX", "\n"}

\* The branch handleInput takes for the event data, once it is accepted.
KeyOf(data) ==
  IF data = <<"\r">> THEN "enter"
  ELSE IF data = <<"DEL">> \/ data = <<"BS">> THEN "backspace"
  ELSE IF data = <<"ESC","[","3","~">> THEN "delete"
  ELSE IF data = <<"ESC","[","A">> THEN "up"
  ELSE IF data = <<"ESC","[","B">> THEN "down"
  ELSE IF data = <<"ESC","[","C">> THEN "right"
  ELSE IF data = <<"ESC","[","D">> THEN "left"
  ELSE IF data = <<"ESC","[","H">> \/ data = <<"SOH">> THEN "home"
  ELSE IF data = <<"ESC","[","F">> \/ data = <<"ENQ">> THEN "end"
  ELSE IF data = <<"FF">> THEN "clearScreen"
  ELSE IF data = <<"\t">> THEN "tab"
  ELSE IF data = <<"NAK">> THEN "clearLine"
  ELSE IF data # <<>> /\ (data[1] \notin ControlChars \/ Len(data) > 1) THEN "insert"
  ELSE "ignored"

\* An event is processed although a command is executing.
InputNeverDropped(processing) == FALSE

\* The first statement of handleInput: the event is dropped while a command
\* is executing.
InputDropped(processing) == processing

\* FakeShell.insertChar: the buffer and the cursor afterwards
insertChar(buffer, cursor, char) ==
  [inputBuffer |-> SliceTo(buffer, cursor) \o char \o SliceFrom(buffer, cursor),
   cursorPosition |-> cursor + 1]

\* The character at the cursor is erased and the cursor stays.
handleBackspaceForward(buffer, cursor) ==
  IF cursor > 0
    THEN [inputBuffer |-> SliceTo(buffer, cursor) \o SliceFrom(buffer, cursor + 1),
          cursorPosition |-> cursor, redraw |-> TRUE]
    ELSE [inputBuffer |-> buffer, cursorPosition |-> cursor, redraw |-> FALSE]

\* FakeShell.handleBackspace
handleBackspace(buffer, cursor) ==
  IF cursor > 0
    THEN [inputBuffer |-> SliceTo(buffer, cursor - 1) \o SliceFrom(buffer, cursor),
          cursorPosition |-> cursor - 1, redraw |-> TRUE]
    ELSE [inputBuffer |-> buffer, cursorPosition |-> cursor, redraw |-> FALSE]

\* FakeShell.handleDelete
handleDelete(buffer, cursor) ==
  IF cursor < Len(buffer)
    THEN [inputBuffer |-> SliceTo(buffer, cursor) \o SliceFrom(buffer, cursor + 1),
          cursorPosition |-> cursor, redraw |-> TRUE]
    ELSE [inputBuffer |-> buffer, cursorPosition |-> cursor, redraw |-> FALSE]

\* At the oldest entry the browse cursor wraps to the newest one.
handleHistoryUpWraps(buffer, cursor, history, index) ==
  IF index < Len(history) - 1
    THEN LET entry == history[Len(history) - (index + 1)]
         IN  [inputBuffer |-> entry, cursorPosition |-> Len(entry),
              historyIndex |-> index + 1, redraw |-> TRUE]
  ELSE IF history # <<>>
    THEN [inputBuffer |-> history[Len(history)],
          cursorPosition |-> Len(history[Len(history)]),
          historyIndex |-> 0, redraw |-> TRUE]
  ELSE [inputBuffer |-> buffer, cursorPosition |-> cursor,
        historyIndex |-> index, redraw |-> FALSE]

\* FakeShell.handleHistoryUp
handleHistoryUp(buffer, cursor, history, index) ==
  IF index < Len(history) - 1
    THEN LET entry == history[Len(history) - (index + 1)]
         IN  [inputBuffer |-> entry, cursorPosition |-> Len(entry),
              historyIndex |-> index + 1, redraw |-> TRUE]
    ELSE [inputBuffer |-> buffer, cursorPosition |-> cursor,
          historyIndex |-> index, redraw |-> FALSE]

\* Below the newest entry browsing stops and the line is left as it is.
handleHistoryDownKeepsLine(buffer, cursor, history, index) ==
  IF index > 0
    THEN LET entry == history[Len(history) - (index - 1)]
         IN  [inputBuffer |-> entry, cursorPosition |-> Len(entry),
              historyIndex |-> index - 1, redraw |-> TRUE]
  ELSE IF index = 0
    THEN [inputBuffer |-> buffer, cursorPosition |-> cursor, historyIndex |-> -1,
          redraw |-> TRUE]
  ELSE [inputBuffer |-> buffer, cursorPosition |-> cursor, historyIndex |-> index,
        redraw |-> FALSE]

\* FakeShell.handleHistoryDown
handleHistoryDown(buffer, cursor, history, index) ==
  IF index > 0
    THEN LET entry == history[Len(history) - (index - 1)]
         IN  [inputBuffer |-> entry, cursorPosition |-> Len(entry),
              historyIndex |-> index - 1, redraw |-> TRUE]
  ELSE IF index = 0
    THEN [inputBuffer |-> <<>>, cursorPosition |-> 0, historyIndex |-> -1,
          redraw |-> TRUE]
  ELSE [inputBuffer |-> buffer, cursorPosition |-> cursor, historyIndex |-> index,
        redraw |-> FALSE]

\* The one candidate is always followed by a space.
handleTabSpaced(buffer, cursor, completions) ==
  IF Cardinality(completions) = 1
    THEN LET only == CHOOSE c \in completions : TRUE
             lastSpace == LastIndexOf(buffer, " ")
             completed == IF lastSpace = -1 THEN only \o <<" ">>
                          ELSE SliceTo(buffer, lastSpace + 1) \o only \o <<" ">>
         IN  [inputBuffer |-> completed, cursorPosition |-> Len(completed),
              shown |-> "redraw"]
  ELSE IF Cardinality(completions) > 1
    THEN [inputBuffer |-> buffer, cursorPosition |-> cursor, shown |-> "list"]
  ELSE [inputBuffer |-> buffer, cursorPosition |-> cursor, shown |-> "none"]

\* FakeShell.handleTab: one candidate replaces the text after the last space,
\* several are listed, none leaves the line alone.
handleTab(buffer, cursor, completions) ==
  IF Cardinality(completions) = 1
    THEN LET only == CHOOSE c \in completions : TRUE
             lastSpace == LastIndexOf(buffer, " ")
             completed == IF lastSpace = -1 THEN only \o <<" ">>
                          ELSE SliceTo(buffer, lastSpace + 1) \o only
         IN  [inputBuffer |-> completed, cursorPosition |-> Len(completed),
              shown |-> "redraw"]
  ELSE IF Cardinality(completions) > 1
    THEN [inputBuffer |-> buffer, cursorPosition |-> cursor, shown |-> "list"]
  ELSE [inputBuffer |-> buffer, cursorPosition |-> cursor, shown |-> "none"]

\* The line committed as it stands in the buffer.
CommittedLineRaw(buffer) == buffer

\* const command = this.inputBuffer.trim()
CommittedLine(buffer) == Trim(buffer)

Exit == <<"e","x","i","t">>

\* No line is taken for the exit request.
IsExitNever(command) == FALSE

\* command === 'exit'
IsExit(command) == command = Exit

\* The flag is left set after the await.
ProcessingStaysSet == TRUE

\* this.isProcessing = false after the await of executeCommand
ProcessingAfterAwait == FALSE

(***************************************************************************)
(* The line editor's events.  A printable event is accepted into a buffer  *)
(* shorter than MaxLen, and a line is committed to a history shorter than  *)
(* MaxHist.                                                                *)
(***************************************************************************)

MaxLen == 2

MaxHist == 2

\* Ctrl+L is pressed while what it writes ends at a column up to MaxColumn.
MaxColumn == 36

\* The keys typed: a registered command is "s", a space separates and pads.
Texts == { <<"s">>, <<" ">> }

ControlEvents ==
  { <<"\r">>, <<"DEL">>, <<"ESC","[","3","~">>, <<"ESC","[","A">>, <<"ESC","[","B">>,
    <<"ESC","[","C">>, <<"ESC","[","D">>, <<"NAK">>, <<"ETX">> }

\* The keys that show the line again: Home, End, Ctrl+L and Tab.
JumpEvents == { <<"ESC","[","H">>, <<"ESC","[","F">>, <<"FF">>, <<"\t">> }

InputEvents == ControlEvents \cup Texts

\* The words pasted: the exit request and a built-in command.
ExitTexts == { Exit, <<"l","s">> }

\* The sequence a terminal sends for the Page Up key, which handleInput
\* has no branch for.
PageUp == <<"ESC","[","5","~">>

\* The branch of handleInput for each event of the model.
KeyTable ==
  [data \in ControlEvents \cup JumpEvents \cup Texts \cup ExitTexts \cup {PageUp}
     |-> KeyOf(data)]

\* The custom commands the Terminal component registers before attach.
ShellCustomCommands == { <<"s">> }

\* No continuation of executeCommand is ready to run: a ready continuation
\* is a microtask and runs before the next input event.
NoReadyContinuation == \A i \in 1..Len(pending) : pending[i].state = "running"

\* The keys lastEvent records by name; any other processed key is "key".
NamedKeys ==
  {"enter", "insert", "up", "down", "left", "right", "home", "end", "backspace",
   "delete", "tab"}

\* What lastEvent records of a processed event.
EventLabel(key) == IF key \in NamedKeys THEN key ELSE "key"

\* FakeShell.isWideChar as the cursor keys use it: the columns of one move.
moveCols(char) == IF char \in WideChars THEN 2 ELSE 1

\* handleInput takes the event data and processes it.
Accepted(data, key) ==
  /\ NoReadyContinuation
  /\ KeyTable[data] = key
  /\ ~ InputDropped(isProcessing)
  /\ lastEvent' = EventLabel(key)

cliUnchanged ==
  UNCHANGED <<env, commands, tree, currentPath, out, input, call, vfsCall, session, exam, copy>>

\* The event is kept while a command is executing: its text is typed ahead
\* into the buffer.
DropInputTypeAhead(data) ==
  /\ NoReadyContinuation
  /\ InputDropped(isProcessing)
  /\ lastEvent' = "dropped"
  /\ inputBuffer' = IF KeyTable[data] = "insert" /\ Len(inputBuffer) < MaxLen
                      THEN inputBuffer \o data ELSE inputBuffer
  /\ UNCHANGED <<cursorPosition, commandHistory, historyIndex,
                 isProcessing, pending, lastWrite, termColumn>>
  /\ UNCHANGED <<env, commands, tree, currentPath, out, input, call, vfsCall>>
  /\ UNCHANGED <<session, exam, copy>>

\* handleInput while a command is executing: the event is dropped.
DropInput(data) ==
  /\ NoReadyContinuation
  /\ InputDropped(isProcessing)
  /\ lastEvent' = "dropped"
  /\ UNCHANGED <<inputBuffer, cursorPosition, commandHistory, historyIndex,
                 isProcessing, pending, lastWrite, termColumn>>
  /\ cliUnchanged

\* handleInput with printable text: insertChar and redrawLine
InsertText(data) ==
  LET r == insertChar(inputBuffer, cursorPosition, data)
  IN  /\ Accepted(data, "insert")
      /\ Len(inputBuffer) < MaxLen
      /\ inputBuffer' = r.inputBuffer
      /\ cursorPosition' = r.cursorPosition
      /\ lastWrite' = "line"
      /\ termColumn' = redrawLine(r.inputBuffer, r.cursorPosition, promptWidth(env, currentPath))
      /\ UNCHANGED <<commandHistory, historyIndex, isProcessing, pending>>
      /\ cliUnchanged

\* handleInput with a control character no branch takes
IgnoredInput(data) ==
  /\ Accepted(data, "ignored")
  /\ UNCHANGED <<inputBuffer, cursorPosition, commandHistory, historyIndex,
                 isProcessing, pending, lastWrite, termColumn>>
  /\ cliUnchanged

Backspace(data) ==
  LET r == handleBackspace(inputBuffer, cursorPosition)
  IN  /\ Accepted(data, "backspace")
      /\ inputBuffer' = r.inputBuffer
      /\ cursorPosition' = r.cursorPosition
      /\ lastWrite' = IF r.redraw THEN "line" ELSE lastWrite
      /\ termColumn' = IF r.redraw
                          THEN redrawLine(r.inputBuffer, r.cursorPosition, promptWidth(env, currentPath))
                          ELSE termColumn
      /\ UNCHANGED <<commandHistory, historyIndex, isProcessing, pending>>
      /\ cliUnchanged

Delete(data) ==
  LET r == handleDelete(inputBuffer, cursorPosition)
  IN  /\ Accepted(data, "delete")
      /\ inputBuffer' = r.inputBuffer
      /\ cursorPosition' = r.cursorPosition
      /\ lastWrite' = IF r.redraw THEN "line" ELSE lastWrite
      /\ termColumn' = IF r.redraw
                          THEN redrawLine(r.inputBuffer, r.cursorPosition, promptWidth(env, currentPath))
                          ELSE termColumn
      /\ UNCHANGED <<commandHistory, historyIndex, isProcessing, pending>>
      /\ cliUnchanged

\* handleCursorLeft: the cursor moves and a cursor movement is written
CursorLeft(data) ==
  /\ Accepted(data, "left")
  /\ cursorPosition' = IF cursorPosition > 0 THEN cursorPosition - 1 ELSE cursorPosition
  /\ lastWrite' = IF cursorPosition > 0 THEN "move" ELSE lastWrite
  /\ termColumn' = IF cursorPosition > 0
                      THEN CursorBack(termColumn, moveCols(inputBuffer[cursorPosition]))
                      ELSE termColumn
  /\ UNCHANGED <<inputBuffer, commandHistory, historyIndex, isProcessing, pending>>
  /\ cliUnchanged

\* handleCursorRight
CursorRight(data) ==
  /\ Accepted(data, "right")
  /\ cursorPosition' = IF cursorPosition < Len(inputBuffer)
                         THEN cursorPosition + 1 ELSE cursorPosition
  /\ lastWrite' = IF cursorPosition < Len(inputBuffer) THEN "move" ELSE lastWrite
  /\ termColumn' = IF cursorPosition < Len(inputBuffer)
                      THEN CursorForward(termColumn,
                                         moveCols(inputBuffer[cursorPosition + 1]))
                      ELSE termColumn
  /\ UNCHANGED <<inputBuffer, commandHistory, historyIndex, isProcessing, pending>>
  /\ cliUnchanged

\* handleHome: redrawLine with the cursor as it is, then the cursor is set
\* to 0
Home(data) ==
  /\ Accepted(data, "home")
  /\ termColumn' = redrawLine(inputBuffer, cursorPosition, promptWidth(env, currentPath))
  /\ cursorPosition' = 0
  /\ lastWrite' = "line"
  /\ UNCHANGED <<inputBuffer, commandHistory, historyIndex, isProcessing, pending>>
  /\ cliUnchanged

\* handleEnd: redrawLine with the cursor as it is, then the cursor is set
\* to the buffer's length
End(data) ==
  /\ Accepted(data, "end")
  /\ termColumn' = redrawLine(inputBuffer, cursorPosition, promptWidth(env, currentPath))
  /\ cursorPosition' = Len(inputBuffer)
  /\ lastWrite' = "line"
  /\ UNCHANGED <<inputBuffer, commandHistory, historyIndex, isProcessing, pending>>
  /\ cliUnchanged

HistoryUp(data) ==
  LET r == handleHistoryUp(inputBuffer, cursorPosition, commandHistory, historyIndex)
  IN  /\ Accepted(data, "up")
      /\ inputBuffer' = r.inputBuffer
      /\ cursorPosition' = r.cursorPosition
      /\ historyIndex' = r.historyIndex
      /\ lastWrite' = IF r.redraw THEN "line" ELSE lastWrite
      /\ termColumn' = IF r.redraw
                          THEN redrawLine(r.inputBuffer, r.cursorPosition, promptWidth(env, currentPath))
                          ELSE termColumn
      /\ UNCHANGED <<commandHistory, isProcessing, pending>>
      /\ cliUnchanged

HistoryDown(data) ==
  LET r == handleHistoryDown(inputBuffer, cursorPosition, commandHistory, historyIndex)
  IN  /\ Accepted(data, "down")
      /\ inputBuffer' = r.inputBuffer
      /\ cursorPosition' = r.cursorPosition
      /\ historyIndex' = r.historyIndex
      /\ lastWrite' = IF r.redraw THEN "line" ELSE lastWrite
      /\ termColumn' = IF r.redraw
                          THEN redrawLine(r.inputBuffer, r.cursorPosition, promptWidth(env, currentPath))
                          ELSE termColumn
      /\ UNCHANGED <<commandHistory, isProcessing, pending>>
      /\ cliUnchanged

\* Ctrl+L: clear, showPrompt, write the buffer.  The terminal's clear keeps
\* the line of the cursor and the cursor's column, so the prompt and the
\* buffer are written from that column on.
ClearScreen(data) ==
  /\ Accepted(data, "clearScreen")
  /\ showPrompt(termColumn, promptWidth(env, currentPath)) + getDisplayWidth(inputBuffer) <= MaxColumn
  /\ termColumn' = showPrompt(termColumn, promptWidth(env, currentPath)) + getDisplayWidth(inputBuffer)
  /\ lastWrite' = "line"
  /\ UNCHANGED <<inputBuffer, cursorPosition, commandHistory, historyIndex,
                 isProcessing, pending>>
  /\ cliUnchanged

\* Ctrl+U: clearLine
ClearLine(data) ==
  /\ Accepted(data, "clearLine")
  /\ inputBuffer' = <<>>
  /\ cursorPosition' = 0
  /\ lastWrite' = "line"
  /\ termColumn' = redrawLine(<<>>, 0, promptWidth(env, currentPath))
  /\ UNCHANGED <<commandHistory, historyIndex, isProcessing, pending>>
  /\ cliUnchanged

\* handleTab: the line is shown again with the one candidate, or the
\* candidates are listed and the prompt and the buffer written below them.
Tab(data) ==
  LET r == handleTab(inputBuffer, cursorPosition,
                     complete(inputBuffer, commands, tree, currentPath))
      width == promptWidth(env, currentPath)
  IN  /\ Accepted(data, "tab")
      /\ inputBuffer' = r.inputBuffer
      /\ cursorPosition' = r.cursorPosition
      /\ termColumn' = IF r.shown = "redraw"
                          THEN redrawLine(r.inputBuffer, r.cursorPosition, width)
                        ELSE IF r.shown = "list"
                          THEN showPrompt(0, width) + getDisplayWidth(inputBuffer)
                        ELSE termColumn
      /\ lastWrite' = IF r.shown = "none" THEN lastWrite ELSE "line"
      /\ UNCHANGED <<commandHistory, historyIndex, isProcessing, pending>>
      /\ cliUnchanged

\* The buffer is emptied and the cursor is left where it was.
EnterEmptyKeepsCursor(data) ==
  /\ Accepted(data, "enter")
  /\ CommittedLine(inputBuffer) = <<>>
  /\ inputBuffer' = <<>>
  /\ lastWrite' = "prompt"
  /\ termColumn' = showPrompt(0, promptWidth(env, currentPath))
  /\ UNCHANGED <<cursorPosition, commandHistory, historyIndex, isProcessing, pending>>
  /\ cliUnchanged

\* executeCommand with a buffer that trims to nothing: no await is reached,
\* the buffer is reset and the prompt shown at once.
EnterEmpty(data) ==
  /\ Accepted(data, "enter")
  /\ CommittedLine(inputBuffer) = <<>>
  /\ inputBuffer' = <<>>
  /\ cursorPosition' = 0
  /\ lastWrite' = "prompt"
  /\ termColumn' = showPrompt(0, promptWidth(env, currentPath))
  /\ UNCHANGED <<commandHistory, historyIndex, isProcessing, pending>>
  /\ cliUnchanged

\* executeCommand with the line exit: pushed to the history, 'logout' written,
\* and the method returns.
EnterExit(data) ==
  /\ Accepted(data, "enter")
  /\ IsExit(CommittedLine(inputBuffer))
  /\ Len(commandHistory) < MaxHist
  /\ commandHistory' = Append(commandHistory, CommittedLine(inputBuffer))
  /\ historyIndex' = -1
  /\ lastWrite' = "logout"
  /\ termColumn' = 0
  /\ UNCHANGED <<inputBuffer, cursorPosition, isProcessing, pending>>
  /\ cliUnchanged

\* The outcomes of the handler call of cli.execute(command) as executeCommand
\* sees them at its await: no handler was called, or the handler has returned,
\* has thrown, or has returned a pending promise.
HandlerOutcomes(d) ==
  IF d.kind # "invoke" THEN {"none"}
  ELSE IF d.command \in BuiltInCommands THEN {"returned"}
  ELSE {"returned", "threw", "suspended"}

\* The suspended call of executeCommand for an outcome of the handler call.
PendingOf(d, outcome) ==
  [state   |-> IF outcome = "suspended" THEN "running"
               ELSE IF outcome = "threw"
                 THEN CatchHandlerFault(d.command, NotAnError).state
               ELSE "fulfilled",
   handler |-> outcome # "none",
   failed  |-> outcome = "threw"]

\* The line is pushed to the history and the browse cursor is left as it is.
EnterDispatchKeepsBrowsing(data, outcome) ==
  LET command == CommittedLine(inputBuffer)
      d == Dispatch(command, env, commands, currentPath)
  IN  /\ Accepted(data, "enter")
      /\ command # <<>>
      /\ ~ IsExit(command)
      /\ Len(commandHistory) < MaxHist
      /\ outcome \in HandlerOutcomes(d)
      /\ commandHistory' = Append(commandHistory, command)
      /\ isProcessing' = TRUE
      /\ pending' = Append(pending, PendingOf(d, outcome))
      /\ lastWrite' = IF d.out # <<>> THEN "output" ELSE "newline"
      /\ termColumn' = 0
      /\ UNCHANGED <<inputBuffer, cursorPosition, historyIndex>>
      /\ cliUnchanged

\* executeCommand with any other line, up to its await: the line is pushed
\* to the history, isProcessing is set and cli.execute(command) is called.
EnterDispatch(data, outcome) ==
  LET command == CommittedLine(inputBuffer)
      d == Dispatch(command, env, commands, currentPath)
  IN  /\ Accepted(data, "enter")
      /\ command # <<>>
      /\ ~ IsExit(command)
      /\ Len(commandHistory) < MaxHist
      /\ outcome \in HandlerOutcomes(d)
      /\ commandHistory' = Append(commandHistory, command)
      /\ historyIndex' = -1
      /\ isProcessing' = TRUE
      /\ pending' = Append(pending, PendingOf(d, outcome))
      /\ lastWrite' = IF d.out # <<>> THEN "output" ELSE "newline"
      /\ termColumn' = 0
      /\ UNCHANGED <<inputBuffer, cursorPosition>>
      /\ cliUnchanged

\* The promise a suspended handler returned settles: execute returns the
\* status, or its catch clause turns the rejection into status 1.
HandlerSettles(i, failing) ==
  /\ i \in 1..Len(pending)
  /\ pending[i].state = "running"
  /\ pending' = [pending EXCEPT
                   ![i].state = IF failing THEN AwaitRejection(<<>>, NotAnError).state
                                ELSE "fulfilled",
                   ![i].failed = failing]
  /\ lastEvent' = "settle"
  /\ UNCHANGED <<inputBuffer, cursorPosition, commandHistory, historyIndex,
                 isProcessing, lastWrite, termColumn>>
  /\ cliUnchanged

\* executeCommand after its await: the catch clause writes a rejection,
\* isProcessing is cleared, the buffer reset and the prompt shown.
Resume(i) ==
  /\ i \in 1..Len(pending)
  /\ pending[i].state # "running"
  /\ pending' = SubSeq(pending, 1, i - 1) \o SubSeq(pending, i + 1, Len(pending))
  /\ isProcessing' = ProcessingAfterAwait
  /\ inputBuffer' = <<>>
  /\ cursorPosition' = 0
  /\ lastWrite' = "prompt"
  /\ lastEvent' = "resume"
  /\ termColumn' = showPrompt(termColumn, promptWidth(env, currentPath))
  /\ UNCHANGED <<commandHistory, historyIndex>>
  /\ cliUnchanged

\* The microtask of some settled call of executeCommand runs.
ResumeSome == \E i \in DOMAIN pending : Resume(i)

\* The keys that move the cursor by one character.
Moving(events) ==
  \/ \E data \in events : CursorLeft(data)
  \/ \E data \in events : CursorRight(data)

\* The keys that show the line again without changing its text.
Jumping(events) ==
  \/ \E data \in events : Home(data)
  \/ \E data \in events : End(data)
  \/ \E data \in events : ClearScreen(data)
  \/ \E data \in events : Tab(data)

\* The events handleInput processes, the erasing and the jumping keys apart.
Editing(events) ==
  \/ \E data \in events : InsertText(data)
  \/ \E data \in events : IgnoredInput(data)
  \/ Moving(events)
  \/ \E data \in events : HistoryUp(data)
  \/ \E data \in events : HistoryDown(data)
  \/ \E data \in events : ClearLine(data)
  \/ \E data \in events : EnterEmpty(data)
  \/ \E data \in events, outcome \in {"none", "returned", "threw", "suspended"} :
       EnterDispatch(data, outcome)

\* The keys that erase one character.
Erasing(events) ==
  \/ \E data \in events : Backspace(data)
  \/ \E data \in events : Delete(data)

\* While a suspended handler runs: an event arrives and is dropped, or the
\* promise of the handler settles.
Waiting(events) ==
  \/ \E data \in events : DropInput(data)
  \/ \E i \in DOMAIN pending, failing \in BOOLEAN : HandlerSettles(i, failing)

Next ==
  Editing(InputEvents) \/ Erasing(InputEvents) \/ Waiting(InputEvents) \/ ResumeSome

\* The shell attached by the Terminal component, its custom commands
\* registered.
InitShell == InitWith(BuiltInCommands \cup ShellCustomCommands, { <<>> })

Spec == InitShell /\ [][Next]_vars

\* The continuation of an await whose promise has settled runs.
SpecFair == Spec /\ WF_vars(ResumeSome)

(***************************************************************************)
(* The session in which words are pasted: one event carries the           *)
(* characters of exit or of ls.  The erasing keys are not pressed in this  *)
(* session, and no command it can name has a handler that suspends.        *)
(***************************************************************************)

ExitEvents ==
  (ControlEvents \ { <<"DEL">>, <<"ESC","[","3","~">> }) \cup ExitTexts

\* The commit of the line exit, which only this session can make.
Leaving(events) == \E data \in events : EnterExit(data)

NextExit == Editing(ExitEvents) \/ Leaving(ExitEvents) \/ ResumeSome

SpecExit == InitShell /\ [][NextExit]_vars

(***************************************************************************)
(* The session on a typed line: a line of KeyLines has been typed into the *)
(* attached shell, and the keys pressed on it are the cursor keys, Home,   *)
(* End, Ctrl+L and Tab.                                                    *)
(***************************************************************************)

KeyLines ==
  { <<>>, <<"l">>, <<"c">>, <<"x">>, <<"l","s">>, <<" ","l">>,
    <<"l","s"," ","-","l">>, <<"l","s"," ">>, <<"l","s"," ","r">>,
    <<"c","d"," ">>, <<"c","a","t"," ",".">>, <<"e","c","h","o"," ","r">>,
    <<"e","c","h","o"," ","/","e">>, <<"e","c","h","o"," ","/","e","t","c","/">>,
    <<"x"," ","r","e">>, <<"CJK">>, <<"l","CJK","s">>, Astral, <<"l">> \o Astral }

KeyEvents == JumpEvents \cup { <<"ESC","[","C">>, <<"ESC","[","D">> }

\* The state after attach() and the typing of line, character by character.
InitTyped(registry, line) ==
  /\ env = DefaultEnv
  /\ commands = registry
  /\ tree = DefaultTree
  /\ currentPath = GuestHome
  /\ out = <<>>
  /\ input = <<>>
  /\ call = NoCall
  /\ inputBuffer = line
  /\ cursorPosition = Len(line)
  /\ commandHistory = <<>>
  /\ historyIndex = -1
  /\ isProcessing = FALSE
  /\ pending = <<>>
  /\ lastWrite = IF line = <<>> THEN "prompt" ELSE "line"
  /\ lastEvent = IF line = <<>> THEN "attach" ELSE "insert"
  /\ termColumn = redrawLine(line, Len(line), promptWidth(DefaultEnv, GuestHome))
  /\ vfsCall = NoVfsCall
  /\ session = <<>>
  /\ exam = NoExam
  /\ copy = NoCopy

InitKeys ==
  \E line \in KeyLines : InitTyped(BuiltInCommands \cup ShellCustomCommands, line)

NextKeys == Moving(KeyEvents) \/ Jumping(KeyEvents)

SpecKeys == InitKeys /\ [][NextKeys]_vars

(***************************************************************************)
(* The session in which keys without a branch in handleInput are pressed   *)
(* on a typed line: Page Up and Ctrl+C, between moves of the cursor.       *)
(***************************************************************************)

UnboundEvents == { PageUp, <<"ETX">>, <<"ESC","[","C">>, <<"ESC","[","D">> }

NextUnbound ==
  \/ \E data \in UnboundEvents : InsertText(data)
  \/ \E data \in UnboundEvents : IgnoredInput(data)
  \/ Moving(UnboundEvents)

SpecUnbound == InitKeys /\ [][NextUnbound]_vars

(***************************************************************************)
(* The VFS driven directly: a caller makes directories, writes, reads and  *)
(* removes files and changes the directory.                                *)
(***************************************************************************)

\* The paths the methods that change the tree are called with.
VfsPaths == { <<"/">>, <<"/","a">>, <<"/","a","/","b">>, <<".",".">> }

\* The paths resolvePath is called with.
ResolvePaths ==
  VfsPaths \cup
  { <<>>, <<"~">>, <<".">>, <<"a">>, <<"a","/",".",".">>, <<"/","/","a","/">>,
    <<"/",".",".","/","a">>, <<".","/","a">>, <<".",".","/",".",".","/",".",".">>,
    <<"/","a","/",".","/","b","/",".",".">>, <<"/","~">> }

\* The directories a caller of the changing methods changes to.
VfsDirectories == { <<"/">>, <<"/","a">> }

\* The directories a caller of resolvePath makes and changes to.
ResolveDirectories == VfsDirectories \cup { <<"/","a","/","b">> }

Contents == { <<>>, <<"s">> }

\* What vfsCall holds of a call: the method, its arguments, what it returned
\* (ok for a flag, value for a string and isNull for null) and the parity of
\* the number of calls.
VfsCallOf(op, path, content, recursive, ok, isNull, value) ==
  [op |-> op, path |-> path, dest |-> <<>>, content |-> content,
   recursive |-> recursive, ok |-> ok, isNull |-> isNull, value |-> value,
   odd |-> ~ vfsCall.odd]

vfsUnchanged ==
  /\ UNCHANGED <<env, commands, out, input, call>>
  /\ UNCHANGED <<shellVars, session, exam, copy>>

VfsResolve(path) ==
  /\ vfsCall' = VfsCallOf("resolvePath", path, <<>>, FALSE, TRUE, FALSE,
                          resolvePath(currentPath, path))
  /\ UNCHANGED <<tree, currentPath>>
  /\ vfsUnchanged

VfsMkdir(path) ==
  LET r == vfsMkdir(tree, currentPath, path)
  IN  /\ vfsCall' = VfsCallOf("mkdir", path, <<>>, FALSE, r.ok, FALSE, <<>>)
      /\ tree' = r.tree
      /\ UNCHANGED currentPath
      /\ vfsUnchanged

VfsWriteFile(path, content) ==
  LET r == vfsWriteFile(tree, currentPath, path, content)
  IN  /\ vfsCall' = VfsCallOf("writeFile", path, content, FALSE, r.ok, FALSE, <<>>)
      /\ tree' = r.tree
      /\ UNCHANGED currentPath
      /\ vfsUnchanged

VfsReadFile(path) ==
  LET r == vfsReadFile(tree, currentPath, path)
  IN  /\ vfsCall' = VfsCallOf("readFile", path, <<>>, FALSE, ~ r.isNull, r.isNull,
                              r.content)
      /\ UNCHANGED <<tree, currentPath>>
      /\ vfsUnchanged

VfsRm(path, recursive) ==
  LET r == vfsRm(tree, currentPath, path, recursive)
  IN  /\ vfsCall' = VfsCallOf("rm", path, <<>>, recursive, r.ok, FALSE, <<>>)
      /\ tree' = r.tree
      /\ UNCHANGED currentPath
      /\ vfsUnchanged

VfsCd(path) ==
  LET r == vfsCd(tree, currentPath, path)
  IN  /\ vfsCall' = VfsCallOf("cd", path, <<>>, FALSE, r.ok, FALSE, <<>>)
      /\ currentPath' = r.currentPath
      /\ UNCHANGED tree
      /\ vfsUnchanged

NextVFS ==
  \/ \E path \in VfsPaths : VfsMkdir(path)
  \/ \E path \in VfsPaths, content \in Contents : VfsWriteFile(path, content)
  \/ \E path \in VfsPaths : VfsReadFile(path)
  \/ \E path \in VfsPaths, recursive \in BOOLEAN : VfsRm(path, recursive)
  \/ \E path \in VfsDirectories : VfsCd(path)

SpecVFS == Init /\ [][NextVFS]_vars

VfsCp(src, dest, recursive) ==
  LET r == vfsCp(tree, currentPath, src, dest, recursive)
  IN  /\ CopyEnds(tree, currentPath, src, dest, recursive)
      /\ vfsCall' = [VfsCallOf("cp", src, <<>>, recursive, r.ok, FALSE, <<>>)
                       EXCEPT !.dest = dest]
      /\ tree' = r.tree
      /\ UNCHANGED currentPath
      /\ vfsUnchanged

VfsMv(src, dest) ==
  LET r == vfsMv(tree, currentPath, src, dest)
  IN  /\ CopyEnds(tree, currentPath, src, dest, TRUE)
      /\ vfsCall' = [VfsCallOf("mv", src, <<>>, TRUE, r.ok, FALSE, <<>>)
                       EXCEPT !.dest = dest]
      /\ tree' = r.tree
      /\ UNCHANGED currentPath
      /\ vfsUnchanged

\* The paths a caller that copies and moves passes.
CopyPaths == { <<"/">>, <<"/","a">>, <<"/","a","/","b">> }

CopySources == { <<"/","a">>, <<"/","a","/","b">> }

\* The caller that makes, writes, removes, copies and moves entries.
NextCopy ==
  \/ \E path \in CopyPaths : VfsMkdir(path)
  \/ \E path \in CopyPaths, content \in Contents : VfsWriteFile(path, content)
  \/ \E path \in CopyPaths, recursive \in BOOLEAN : VfsRm(path, recursive)
  \/ \E src \in CopySources, dest \in CopyPaths, recursive \in BOOLEAN :
        VfsCp(src, dest, recursive)
  \/ \E src \in CopySources, dest \in CopyPaths : VfsMv(src, dest)

SpecCopy == Init /\ [][NextCopy]_vars

(***************************************************************************)
(* VFS.cp(src, dest, true) call by call: a step is one call of cp up to    *)
(* its loop, or the return of a call whose loop has ended.                 *)
(***************************************************************************)

\* The frames of cp the model follows.
MaxDepth == 4

\* The statements of cp(src, dest, true) before its loop: the tree
\* afterwards, the flag cp returns and whether the loop over
\* srcNode.children is entered.
cpEnter(fs, cwd, src, dest) ==
  LET srcNode == getNode(fs, cwd, src)
      destPath == resolvePath(cwd, dest)
      destParent == getNode(fs, cwd, ParentPath(destPath))
  IN  IF srcNode = Null
        THEN [tree |-> fs, ok |-> FALSE, loops |-> FALSE]
      ELSE IF destParent = Null \/ destParent.type # "directory"
        THEN [tree |-> fs, ok |-> FALSE, loops |-> FALSE]
      ELSE IF srcNode.type = "directory"
        THEN [tree |-> vfsMkdir(fs, cwd, destPath).tree, ok |-> TRUE, loops |-> TRUE]
      ELSE [tree |-> vfsWriteFile(fs, cwd, destPath, srcNode.content).tree,
            ok |-> TRUE, loops |-> FALSE]

\* The frame of a call of cp that is in its loop: the arguments and the
\* names of srcNode.children the loop has taken.
CopyFrame(src, dest) == [src |-> src, dest |-> dest, visited |-> {}]

\* A caller calls cp(src, dest, true) while no call is in progress.  The
\* nodes of the tree and of the source at the call are kept with the frames.
CopyCall(src, dest) ==
  \E r \in { cpEnter(tree, currentPath, src, dest) } :
    /\ copy.frames = <<>>
    /\ tree' = r.tree
    /\ copy' = IF r.loops
                 THEN [frames |-> << CopyFrame(src, dest) >>,
                       nodes |-> Cardinality(DOMAIN tree),
                       source |-> Cardinality({ q \in DOMAIN tree :
                                     Under(NodeKey(resolvePath(currentPath, src)), q) })]
                 ELSE NoCopy
    /\ vfsCall' = [VfsCallOf("cp", src, <<>>, TRUE, r.ok, FALSE, <<>>)
                     EXCEPT !.dest = dest]
    /\ UNCHANGED <<env, commands, currentPath, out, input, call>>
    /\ UNCHANGED <<shellVars, session, exam>>

\* The names of the live map srcNode.children that the loop of the innermost
\* call has not taken yet.
CopyNames ==
  LET top == copy.frames[Len(copy.frames)]
  IN  { q[Len(q)] : q \in Children(tree, NodeKey(resolvePath(currentPath, top.src))) }
        \ top.visited

\* The loop of the innermost call has taken every entry: the call returns.
CopyReturn ==
  /\ copy.frames # <<>>
  /\ CopyNames = {}
  /\ copy' = IF Len(copy.frames) = 1 THEN NoCopy
             ELSE [copy EXCEPT !.frames = SubSeq(copy.frames, 1, Len(copy.frames) - 1)]
  /\ UNCHANGED <<env, commands, tree, currentPath, out, input, call, vfsCall>>
  /\ UNCHANGED <<shellVars, session, exam>>

\* The loop of the innermost call takes an entry of the live map and calls
\* cp for it.  The order of the map is not part of the tree of the model, so
\* the loop takes the entries in any order.
CopyDescend ==
  /\ copy.frames # <<>>
  /\ \E name \in CopyNames :
       \E top \in { copy.frames[Len(copy.frames)] } :
       \E r \in { cpEnter(tree, currentPath, top.src \o <<"/">> \o name,
                           top.dest \o <<"/">> \o name) } :
         /\ r.loops => Len(copy.frames) < MaxDepth
         /\ tree' = r.tree
         /\ copy' = [copy EXCEPT !.frames =
              IF r.loops
                THEN Append([copy.frames EXCEPT ![Len(copy.frames)].visited = top.visited \cup {name}],
                            CopyFrame(top.src \o <<"/">> \o name, top.dest \o <<"/">> \o name))
                ELSE [copy.frames EXCEPT ![Len(copy.frames)].visited = top.visited \cup {name}]]
  /\ UNCHANGED <<env, commands, currentPath, out, input, call, vfsCall>>
  /\ UNCHANGED <<shellVars, session, exam>>

\* The directories and the file the caller makes before it copies.
StepDirectories == { <<"/","a">>, <<"/","a","/","b">> }

StepFiles == { <<"/","a","/","f">> }

\* The places the caller copies to: a place inside /a and one outside.
StepTargets == { <<"/","a","/","b">>, <<"/","c">> }

\* The caller makes directories and a file and copies, one call at a time.
NextCopySteps ==
  \/ \E path \in StepDirectories : copy.frames = <<>> /\ VfsMkdir(path)
  \/ \E path \in StepFiles : copy.frames = <<>> /\ VfsWriteFile(path, <<"s">>)
  \/ \E src \in StepDirectories, dest \in StepTargets : CopyCall(src, dest)
  \/ CopyReturn
  \/ CopyDescend

SpecCopySteps == Init /\ [][NextCopySteps]_vars

(***************************************************************************)
(* A session of lines passed to CLI.execute one after the other, each      *)
(* running the handler of a built-in command to its end.                   *)
(***************************************************************************)

MaxSession == 4

SessionLines ==
  { <<"m","k","d","i","r"," ","/","h","o","m","e","/","g","u","e","s","t","/","p">>,
    <<"c","d"," ","/","h","o","m","e","/","g","u","e","s","t","/","p">>,
    <<"t","o","u","c","h"," ","a",".","t","x","t">>,
    <<"l","s">>,
    <<"t","o","u","c","h"," ","/","x","/","y">>,
    <<"m","k","d","i","r"," ","/","e","t","c">>,
    <<"m","k","d","i","r">>,
    <<"c","d"," ","/","x">> }

\* The built-in commands whose handlers the session runs.
SessionCommands == { <<"m","k","d","i","r">>, <<"t","o","u","c","h">>, <<"c","d">>, <<"l","s">> }

\* command.execute(context) of a built-in command of the session: the
\* status, the lines written, the tree and the current path afterwards.
BuiltInExecute(command, context, fs, cwd) ==
  IF command = <<"m","k","d","i","r">>
    THEN LET r == mkdirExecute(context, fs, cwd)
         IN  [status |-> r.status, out |-> r.out, tree |-> r.tree,
              currentPath |-> cwd]
  ELSE IF command = <<"t","o","u","c","h">>
    THEN LET r == touchExecute(context, fs, cwd)
         IN  [status |-> r.status, out |-> r.out, tree |-> r.tree,
              currentPath |-> cwd]
  ELSE IF command = <<"c","d">>
    THEN LET r == cdExecute(context, fs, cwd)
         IN  [status |-> r.status, out |-> r.out, tree |-> fs,
              currentPath |-> r.currentPath]
  ELSE LET r == lsExecute(context, fs, cwd)
       IN  [status |-> r.status, out |-> r.out, tree |-> fs,
            currentPath |-> cwd]

\* execute(line) that runs the handler of mkdir, touch, cd or ls (ls in the
\* short format).
SessionExecute(line) ==
  \E d \in { Dispatch(line, env, commands, currentPath) } :
    /\ Len(session) < MaxSession
    /\ call.state # "running"
    /\ d.kind = "invoke"
    /\ d.command \in SessionCommands
    /\ <<"l">> \notin d.context.flags
    /\ \E r \in { BuiltInExecute(d.command, d.context, tree, currentPath) } :
         /\ input' = line
         /\ tree' = r.tree
         /\ currentPath' = r.currentPath
         /\ out' = r.out
         /\ call' = CallOf("fulfilled", r.status, TRUE, d)
         /\ session' = Append(session,
                              [input |-> line, status |-> r.status, out |-> r.out])
    /\ UNCHANGED <<env, commands>>
    /\ UNCHANGED <<shellVars, vfsCall, exam, copy>>

NextSession == \E line \in SessionLines : SessionExecute(line)

SpecSession == Init /\ [][NextSession]_vars

(***************************************************************************)
(* The ExamSystem attached to the shell, and onCommand called with lines.  *)
(***************************************************************************)

MaxObserved == 3

\* The lines onCommand is called with.
ExamLines ==
  { <<"d","o","c","k","e","r"," ","b","u","i","l","d">>, <<"d","o","c","k","e","r"," ","p","u","s","h"," ","x">>, <<"l","s">>,
    <<" ","d","o","c","k","e","r"," "," ","b","u","i","l","d"," ","-","t"," ","x">>, <<>> }

\* ExamSystem.attach: shell and output are set; FakeShell has no method
\* setOnCommand, so the call of it raises and no listener is kept.
ExamAttach ==
  /\ ~ exam.attached
  /\ exam' = [exam EXCEPT !.attached = TRUE, !.called = "attach"]
  /\ UNCHANGED <<cliVars, shellVars, vfsCall, session, copy>>

\* A call of ExamSystem.onCommand(line) of an ExamSystem made with the
\* given exams.
OnCommandOf(exams, line) ==
  \E r \in { onCommand(exam, exams, line, tree, env, currentPath) } :
      /\ Len(exam.observed) < MaxObserved
      /\ exam' = [r.fields EXCEPT !.observed = Append(@, line), !.called = "onCommand"]
      /\ tree' = r.tree
      /\ env' = r.env
      /\ currentPath' = r.currentPath
      /\ lastWrite' = IF r.wrote THEN "output" ELSE lastWrite
      /\ termColumn' = IF r.wrote THEN 0 ELSE termColumn
      /\ UNCHANGED <<commands, out, input, call, vfsCall, session, copy>>
      /\ UNCHANGED <<inputBuffer, cursorPosition, commandHistory, historyIndex,
                     isProcessing, pending, lastEvent>>

\* A call of onCommand(line) of the ExamSystem the application makes.
OnCommand(line) == OnCommandOf(<< DockerExam >>, line)

NextExam ==
  \/ ExamAttach
  \/ \E line \in ExamLines : OnCommand(line)

SpecExam == Init /\ [][NextExam]_vars

(***************************************************************************)
(* An ExamSystem made with dockerExam and gitExam, its methods called in   *)
(* any order: attach, onCommand, startExam (as exam-start calls it),       *)
(* submitExam (as exam-submit calls it) and endExam.                       *)
(***************************************************************************)

\* The exams the ExamSystem is made with.
RegisteredExams == << DockerExam, GitExam >>

\* The lines onCommand is called with.
WorkflowLines ==
  { <<"g","i","t"," ","i","n","i","t">>, <<"g","i","t"," ","a","d","d"," ","R","E","A","D","M","E",".","m","d">>,
    <<"g","i","t"," ","c","o","m","m","i","t"," ","-","m"," ","f","i","r","s","t">> }

\* A call of ExamSystem.startExam(config).
StartExam(config) ==
  \E r \in { startExam(exam, config, tree, env, currentPath) } :
      /\ exam' = [r.fields EXCEPT !.called = "startExam"]
      /\ tree' = r.tree
      /\ env' = r.env
      /\ currentPath' = r.currentPath
      /\ lastWrite' = IF r.wrote THEN "output" ELSE lastWrite
      /\ termColumn' = IF r.wrote THEN 0 ELSE termColumn
      /\ UNCHANGED <<commands, out, input, call, vfsCall, session, copy>>
      /\ UNCHANGED <<inputBuffer, cursorPosition, commandHistory, historyIndex,
                     isProcessing, pending, lastEvent>>

\* A call of ExamSystem.submitExam([], new Set()): lines are written when
\* an output handler is attached.
SubmitExam ==
  /\ exam' = [submitExam(exam, <<>>, tree, currentPath) EXCEPT !.called = "submitExam"]
  /\ lastWrite' = IF exam.attached THEN "output" ELSE lastWrite
  /\ termColumn' = IF exam.attached THEN 0 ELSE termColumn
  /\ UNCHANGED <<env, commands, tree, currentPath, out, input, call, vfsCall, session, copy>>
  /\ UNCHANGED <<inputBuffer, cursorPosition, commandHistory, historyIndex,
                 isProcessing, pending, lastEvent>>

\* A call of ExamSystem.endExam().
EndExam ==
  /\ exam' = [endExam(exam) EXCEPT !.called = "endExam"]
  /\ UNCHANGED <<cliVars, shellVars, vfsCall, session, copy>>

NextWorkflow ==
  \/ ExamAttach
  \/ \E line \in WorkflowLines : OnCommandOf(RegisteredExams, line)
  \/ \E config \in { DockerExam, GitExam } : StartExam(config)
  \/ SubmitExam
  \/ EndExam

SpecWorkflow == Init /\ [][NextWorkflow]_vars

(***************************************************************************)
(* An ExamSystem made with gitExam alone, attached at some point, and      *)
(* onCommand called with the lines of a Git session.                       *)
(***************************************************************************)

\* The session of the Git workflow: the trigger, git add of a file, and the
\* submit with its message.
GitSession ==
  << <<"g","i","t"," ","i","n","i","t">>, <<"g","i","t"," ","a","d","d"," ","R","E","A","D","M","E",".","m","d">>,
     <<"g","i","t"," ","c","o","m","m","i","t"," ","-","m"," ","f","i","r","s","t">> >>

\* The lines onCommand is called with.
GitLines == { GitSession[i] : i \in DOMAIN GitSession } \cup { <<"g","i","t"," ","s","t","a","t","u","s">> }

NextGit ==
  \/ ExamAttach
  \/ \E line \in GitLines : OnCommandOf(<< GitExam >>, line)

SpecGit == Init /\ [][NextGit]_vars

(***************************************************************************)
(* The parser driven with lines of quotes, escapes, white space and flags: *)
(* execute(input) is called with one line, drawn from the lines of at most *)
(* MaxInput characters and the lines of ls with at most MaxTokens tokens.  *)
(***************************************************************************)

MaxInput == 4

MaxTokens == 3

ParseChars == { " ", "\t", "\"", "'", "\\", "a" }

ParseTokens == { <<"-">>, <<"-","a">>, <<"-","a","b">>, <<"-","-","a","b">>, <<"b">>, <<"c">> }

ParseLines ==
  UNION { [1..n -> ParseChars] : n \in 0..MaxInput }
  \cup { Join(<< <<"l","s">> >> \o ts, <<" ">>) :
           ts \in UNION { [1..n -> ParseTokens] : n \in 0..MaxTokens } }
  \cup { <<"m","k","d","i","r"," ","\"","m","y"," ","d","i","r","\"">>, <<"l","s"," ","-","a","b"," ","-"," ","b">> }

InitParse == InitWith(BuiltInCommands, ParseLines)

NextParse ==
  \/ ExecuteNoHandler
  \/ SessionExecute(input)

SpecParse == InitParse /\ [][NextParse]_vars

\* The caller that makes directories, changes to them and resolves paths.
NextResolve ==
  \/ \E path \in ResolvePaths : VfsResolve(path)
  \/ \E path \in ResolveDirectories : VfsMkdir(path)
  \/ \E path \in ResolveDirectories : VfsCd(path)

SpecResolve == Init /\ [][NextResolve]_vars

(***************************************************************************)
(* Properties of the dispatcher (checked under SpecCLI)                    *)
(***************************************************************************)

\* A step that is a call of execute(input).
ExecuteStep == call.state # "running" /\ call' # call

\* The command name execute looks up for a line: the first token of what
\* follows a leading NAME=value, or of the whole trimmed line.
CommandName(line) ==
  LET m == AssignmentMatch(Trim(line))
  IN  parseInput(IF m.matched THEN m.rest ELSE Trim(line)).command

\* The text of the error line for a fault of the command.
FaultText(command, error) ==
  command \o <<":"," ">> \o
  (IF error.isError THEN error.message
   ELSE <<"U","n","k","n","o","w","n"," ","e","r","r","o","r">>)

\* C4: whenever a handler has raised an error, thrown at once or as the
\* rejection of the promise it returned, the promise of execute is fulfilled
\* (never rejected) with status 1 and the last line the output sink received
\* is the error line '<name>: <message>'.
C4_HandlerFaultCaught ==
  call.faulted =>
    /\ call.state = "fulfilled"
    /\ call.status = 1
    /\ out # <<>>
    /\ out[Len(out)] = OutLine("error", FaultText(call.command, call.fault))

\* C4 witness: the handler of the custom command x has raised an Error and
\* execute has settled.
C4_Witness ==
  /\ call.faulted
  /\ call.fault.isError
  /\ call.state # "running"
  /\ call.command = <<"x">>
  /\ input = <<"x">>

\* C5: a call of execute with a line whose command name is not registered
\* writes the one error line '<name>: command not found', is fulfilled with
\* status 127, calls no handler and changes neither the tree, the current
\* directory nor the global environment.
C5_UnknownCommand ==
  [][ (ExecuteStep /\ CommandName(input) # <<>> /\ CommandName(input) \notin commands)
        => /\ call'.state = "fulfilled"
           /\ call'.status = 127
           /\ ~ call'.handler
           /\ out' = << OutLine("error", CommandName(input) \o NotFoundText) >>
           /\ UNCHANGED <<env, tree, currentPath>> ]_vars

\* C5 witness: the line 'A=1 x' with x unregistered has been dispatched.
C5_Witness ==
  /\ input = <<"A","=","1"," ","x">>
  /\ <<"x">> \notin commands
  /\ call.state = "fulfilled"
  /\ call.status = 127
  /\ ~ call.handler
  /\ Len(out) = 1

\* Whether the trimmed line is NAME=value with nothing after it, and its parts.
BareAssignment(line) ==
  LET t  == Trim(line)
      eq == IndexOf(t, "=")
  IN  [is    |-> /\ eq >= 1
                 /\ IsIdentifier(SliceTo(t, eq))
                 /\ Len(t) > eq + 1
                 /\ \A i \in 1..Len(t) : t[i] \notin WhiteSpace,
       name  |-> SliceTo(t, eq),
       value |-> SliceFrom(t, eq + 1)]

\* C6: a call of execute with a line NAME=value stores value under NAME in
\* the global environment, is fulfilled with status 0, calls no handler and
\* writes nothing.
C6_PersistentAssignment ==
  [][ (ExecuteStep /\ BareAssignment(input).is)
        => /\ env' = EnvSet(env, BareAssignment(input).name, BareAssignment(input).value)
           /\ call'.state = "fulfilled"
           /\ call'.status = 0
           /\ ~ call'.handler
           /\ out' = <<>> ]_vars

\* C7: a call of execute with a line 'NAME=value rest' leaves the global
\* environment as it was, also while and after an asynchronous handler runs,
\* and a handler it calls is the one rest names and sees NAME bound to value
\* over the global environment.
C7_ScopedOverride ==
  [][ /\ (call.state = "running" => env' = env)
      /\ (ExecuteStep /\ AssignmentMatch(Trim(input)).matched)
           => LET m == AssignmentMatch(Trim(input))
              IN  /\ env' = env
                  /\ call'.handler =>
                       /\ call'.command = parseInput(m.rest).command
                       /\ DOMAIN call'.context.env = DOMAIN env \cup {m.name}
                       /\ call'.context.env[m.name] = m.value
                       /\ \A k \in DOMAIN env \ {m.name} :
                            call'.context.env[k] = env[k] ]_vars

\* C7 witness: 'HOME=/ cd' has run cd with HOME bound to '/', so the current
\* directory is the root, while the global HOME is still the home directory.
C7_Witness ==
  /\ input = <<"H","O","M","E","=","/"," ","c","d">>
  /\ call.handler
  /\ call.state = "fulfilled"
  /\ call.context.env[<<"H","O","M","E">>] = <<"/">>
  /\ currentPath = <<"/">>
  /\ env[<<"H","O","M","E">>] = GuestHome

(***************************************************************************)
(* Properties of the line editor (checked under Spec, SpecFair, SpecExit)  *)
(***************************************************************************)

\* The events lastEvent records as processed.
Processed == NamedKeys \cup {"key"}

\* The handlers called and not yet completed.
InFlight == { i \in DOMAIN pending : pending[i].handler /\ pending[i].state = "running" }

\* C1: at most one command handler is in flight at any time (indeed at most
\* one call of executeCommand is suspended), and from a state in which a
\* handler is in flight no step processes an input event.
C1_OneHandlerInFlight ==
  [][ /\ Len(pending') <= 1
      /\ Cardinality(InFlight) <= 1
      /\ (InFlight # {} => lastEvent' \notin Processed) ]_vars

\* A handler is in flight and an input event has arrived meanwhile.
C1_Witness ==
  /\ Cardinality(InFlight) = 1
  /\ lastEvent = "dropped"

\* C2: while the editor is busy, a step taken for an input event leaves the
\* buffer, the cursor, the history and the browse cursor unchanged (and starts
\* nothing); the history and the browse cursor stay as they are until the
\* editor is idle again, and the continuation that ends the busy period
\* leaves an empty buffer and cursor 0, so nothing of a dropped event is
\* applied later.
C2_DroppedWhileBusy ==
  [][ isProcessing =>
        /\ UNCHANGED <<commandHistory, historyIndex>>
        /\ (lastEvent' \notin {"settle", "resume"} =>
              UNCHANGED <<inputBuffer, cursorPosition, isProcessing, pending>>)
        /\ (lastEvent' = "resume" =>
              /\ inputBuffer' = <<>>
              /\ cursorPosition' = 0
              /\ Len(pending') < Len(pending)) ]_vars

\* The editor is busy with the line " s", an event has been dropped and the
\* buffer still holds the committed line.
C2_Witness ==
  /\ isProcessing
  /\ lastEvent = "dropped"
  /\ inputBuffer = <<" ", "s">>
  /\ cursorPosition = 2
  /\ commandHistory = << <<"s">> >>

\* The handler a commit dispatched has completed, by returning or by failing.
HandlerCompleted ==
  \E i \in DOMAIN pending : pending[i].handler /\ pending[i].state # "running"

\* The editor accepts input with an empty line after a fresh prompt.
IdleFresh ==
  /\ ~ isProcessing
  /\ inputBuffer = <<>>
  /\ cursorPosition = 0
  /\ lastWrite = "prompt"

\* C3: whenever the dispatched handler has completed, by returning or by
\* failing, the editor eventually is idle again with an empty buffer, cursor
\* 0 and the prompt freshly shown.
C3_EventuallyIdle == HandlerCompleted ~> IdleFresh

\* A suspended handler has failed and its editor is still busy.
C3_Witness ==
  /\ isProcessing
  /\ Len(pending) = 1
  /\ pending[1].handler
  /\ pending[1].failed
  /\ pending[1].state # "running"
  /\ lastEvent = "settle"

C9_ExitNotDispatched ==
  [][ (lastEvent' = "enter" /\ Trim(inputBuffer) = Exit) =>
        /\ pending' = pending
        /\ ~ isProcessing'
        /\ lastWrite' = "logout"
        /\ commandHistory' = Append(commandHistory, Exit)
        /\ UNCHANGED <<out, call, env, tree, currentPath>> ]_vars

\* The line exit has just been committed.
C9_Witness ==
  /\ lastEvent = "enter"
  /\ lastWrite = "logout"
  /\ commandHistory # <<>>
  /\ commandHistory[Len(commandHistory)] = Exit
  /\ ~ isProcessing
  /\ pending = <<>>

\* C10 as stated: a printable event inserts its text at the cursor and the
\* cursor advances by the number of characters inserted.
C10_CursorAfterText ==
  [][ lastEvent' = "insert" =>
        \E text \in ExitTexts :
          /\ inputBuffer' = SliceTo(inputBuffer, cursorPosition) \o text
                              \o SliceFrom(inputBuffer, cursorPosition)
          /\ cursorPosition' = cursorPosition + Len(text) ]_vars

(***************************************************************************)
(* Properties of the history keys and the erasing keys (checked under      *)
(* Spec)                                                                   *)
(***************************************************************************)

\* The history entry the browse cursor index stands on.
BrowsedEntry(history, index) == history[Len(history) - index]

\* C11: the Up key, when the browse cursor is not at the oldest entry, moves
\* it one step older and loads that entry with the cursor at its end; at the
\* oldest entry or with an empty history it changes neither the buffer, the
\* cursor nor the browse cursor.
C11_HistoryUp ==
  [][ lastEvent' = "up" =>
        IF historyIndex < Len(commandHistory) - 1
          THEN /\ historyIndex' = historyIndex + 1
               /\ inputBuffer' = BrowsedEntry(commandHistory, historyIndex')
               /\ cursorPosition' = Len(inputBuffer')
          ELSE UNCHANGED <<inputBuffer, cursorPosition, historyIndex>> ]_vars

\* Up has been pressed twice with two different lines in the history: the
\* older one is loaded.
C11_Witness ==
  /\ lastEvent = "up"
  /\ Len(commandHistory) = 2
  /\ commandHistory[1] # commandHistory[2]
  /\ historyIndex = 1
  /\ inputBuffer = commandHistory[1]
  /\ cursorPosition = Len(inputBuffer)

\* C12: the Down key, when browsing and not at the newest entry, moves one
\* step newer and loads that entry; at the newest entry it empties the
\* buffer, sets the cursor to 0 and stops browsing; when not browsing it
\* changes nothing.
C12_HistoryDown ==
  [][ lastEvent' = "down" =>
        IF historyIndex > 0
          THEN /\ historyIndex' = historyIndex - 1
               /\ inputBuffer' = BrowsedEntry(commandHistory, historyIndex')
        ELSE IF historyIndex = 0
          THEN /\ inputBuffer' = <<>>
               /\ cursorPosition' = 0
               /\ historyIndex' = -1
        ELSE UNCHANGED <<inputBuffer, cursorPosition, historyIndex>> ]_vars

\* Down has been pressed on the older of two different lines: the newer one
\* is loaded.
C12_Witness ==
  /\ lastEvent = "down"
  /\ Len(commandHistory) = 2
  /\ commandHistory[1] # commandHistory[2]
  /\ historyIndex = 0
  /\ inputBuffer = commandHistory[2]

\* buffer without its character number i (counted from 1).
Without(buffer, i) ==
  [j \in 1..(Len(buffer) - 1) |-> IF j < i THEN buffer[j] ELSE buffer[j + 1]]

\* C14: Backspace with the cursor after the start removes exactly the
\* character before the cursor and moves the cursor back by one; Delete with
\* the cursor before the end removes exactly the character at the cursor and
\* keeps the cursor; at its boundary each changes neither buffer nor cursor.
C14_EraseOne ==
  [][ /\ lastEvent' = "backspace" =>
           IF cursorPosition > 0
             THEN /\ inputBuffer' = Without(inputBuffer, cursorPosition)
                  /\ cursorPosition' = cursorPosition - 1
             ELSE UNCHANGED <<inputBuffer, cursorPosition>>
      /\ lastEvent' = "delete" =>
           IF cursorPosition < Len(inputBuffer)
             THEN /\ inputBuffer' = Without(inputBuffer, cursorPosition + 1)
                  /\ cursorPosition' = cursorPosition
             ELSE UNCHANGED <<inputBuffer, cursorPosition>> ]_vars

\* Backspace has erased the first of two different characters.
C14_Witness ==
  /\ lastEvent = "backspace"
  /\ inputBuffer = <<" ">>
  /\ cursorPosition = 0
  /\ lastWrite = "line"

(***************************************************************************)
(* Properties of Home, End and Tab (checked under SpecKeys)                *)
(***************************************************************************)

\* The column of the character at offset cursor of the shown line.
ColumnOf(buffer, cursor) ==
  promptWidth(env, currentPath) + getDisplayWidth(SliceTo(buffer, cursor))

\* C13: Home sets the cursor offset to 0 and End sets it to the buffer's
\* length, and the terminal's cursor is shown at the new offset.
C13_JumpShownAtNewOffset ==
  [][ /\ lastEvent' = "home" => cursorPosition' = 0
      /\ lastEvent' = "end" => cursorPosition' = Len(inputBuffer)
      /\ lastEvent' \in {"home", "end"} =>
           termColumn' = ColumnOf(inputBuffer', cursorPosition') ]_vars

\* C15: Tab with exactly one candidate replaces the text after the last
\* space (the whole buffer when it has no space) by the candidate, with a
\* space after it only when a bare command name was completed, and puts the
\* cursor at the end; with several candidates or none, buffer and cursor are
\* unchanged.
C15_TabCompletion ==
  [][ lastEvent' = "tab" =>
        LET candidates == complete(inputBuffer, commands, tree, currentPath)
            kept == SliceTo(inputBuffer, LastIndexOf(inputBuffer, " ") + 1)
            bare == kept = <<>> /\ parseInput(inputBuffer).args = <<>>
        IN  IF Cardinality(candidates) = 1
              THEN \E c \in candidates :
                     /\ \/ inputBuffer' = kept \o c
                        \/ bare /\ c \in commands /\ inputBuffer' = kept \o c \o <<" ">>
                     /\ cursorPosition' = Len(inputBuffer')
              ELSE UNCHANGED <<inputBuffer, cursorPosition>> ]_vars

\* Tab has completed the one file name that starts with a dot.
C15_Witness ==
  /\ lastEvent = "tab"
  /\ inputBuffer = <<"c","a","t"," ",".","b","a","s","h","r","c">>
  /\ cursorPosition = Len(inputBuffer)

(***************************************************************************)
(* Properties of path resolution (checked under SpecResolve)               *)
(***************************************************************************)

\* An absolute path without empty, '.' and '..' parts: '/' or the names of
\* a walk down from the root, each after a '/'.
IsNormalized(path) ==
  \/ path = <<"/">>
  \/ /\ path # <<>>
     /\ path[1] = "/"
     /\ \A i \in 1..Len(Split(Tail(path), "/")) :
          Split(Tail(path), "/")[i] \notin { <<>>, <<".">>, <<".",".">> }

\* C16: for every current directory and every path, resolvePath returns an
\* absolute path free of '..'; '..' names the directory above the current
\* one, and the root from the root: /a from /a/b and / from /.
C16_ResolveTotal ==
  /\ \A path \in ResolvePaths : IsNormalized(resolvePath(currentPath, path))
  /\ currentPath = <<"/","a","/","b">> =>
       resolvePath(currentPath, <<".",".">>) = <<"/","a">>
  /\ currentPath = <<"/">> => resolvePath(currentPath, <<".",".">>) = <<"/">>
  /\ vfsCall.op = "resolvePath" /\ vfsCall.path = <<".",".">> =>
       vfsCall.value = ParentPath(currentPath)

\* resolvePath("..") has been called in /a/b.
C16_Witness ==
  /\ vfsCall.op = "resolvePath"
  /\ vfsCall.path = <<".",".">>
  /\ currentPath = <<"/","a","/","b">>
  /\ vfsCall.value = <<"/","a">>

\* C17: resolving a resolved path gives it back, for every path and every
\* current directory.
C17_ResolveIdempotent ==
  /\ \A path \in ResolvePaths :
       resolvePath(currentPath, resolvePath(currentPath, path))
         = resolvePath(currentPath, path)
  /\ vfsCall.op = "resolvePath" =>
       resolvePath(currentPath, vfsCall.value) = vfsCall.value

\* A relative path with a '..' part has been resolved in /a.
C17_Witness ==
  /\ vfsCall.op = "resolvePath"
  /\ vfsCall.path = <<"a","/",".",".">>
  /\ currentPath = <<"/","a">>
  /\ vfsCall.value = <<"/","a">>

(***************************************************************************)
(* Properties of the methods that change the tree (checked under SpecVFS)  *)
(***************************************************************************)

\* C18: when writeFile(p, s) has returned true, readFile(p) returns s.
C18_WriteReadRoundTrip ==
  (vfsCall.op = "writeFile" /\ vfsCall.ok) =>
    vfsReadFile(tree, currentPath, vfsCall.path)
      = [isNull |-> FALSE, content |-> vfsCall.content]

\* C19: rm(p, false) of a directory with a child returns false and leaves
\* the tree unchanged; rm(p, true) of an existing path returns true, and
\* afterwards p and everything below it is absent.
C19_Remove ==
  [][ vfsCall'.op = "rm" =>
        LET p == resolvePath(currentPath, vfsCall'.path)
            node == getNode(tree, currentPath, p)
        IN  /\ ( /\ ~ vfsCall'.recursive
                 /\ node # Null
                 /\ node.type = "directory"
                 /\ Children(tree, NodeKey(p)) # {} ) =>
                 (~ vfsCall'.ok /\ tree' = tree)
            /\ (vfsCall'.recursive /\ node # Null) =>
                 /\ vfsCall'.ok
                 /\ getNode(tree', currentPath, p) = Null
                 /\ \A q \in DOMAIN tree : Under(NodeKey(p), q) => q \notin DOMAIN tree' ]_vars

\* C20: mkdir(p) returns false and leaves the tree unchanged when the parent
\* of p does not exist, is not a directory or already holds a child of that
\* name; otherwise it returns true and p is a new empty directory under that
\* parent.
C20_Mkdir ==
  [][ vfsCall'.op = "mkdir" =>
        LET p == resolvePath(currentPath, vfsCall'.path)
            parent == getNode(tree, currentPath, ParentPath(p))
        IN  IF \/ parent = Null
               \/ parent.type # "directory"
               \/ ChildKey(p) \in DOMAIN tree
              THEN ~ vfsCall'.ok /\ tree' = tree
              ELSE /\ vfsCall'.ok
                   /\ getNode(tree, currentPath, p) = Null
                   /\ getNode(tree', currentPath, p).type = "directory"
                   /\ getNode(tree', currentPath, p).content = <<>>
                   /\ Children(tree', NodeKey(p)) = {}
                   /\ \A q \in DOMAIN tree : q \in DOMAIN tree' /\ tree'[q] = tree[q] ]_vars

\* C21: whenever cp or mv returns true, the destination exists and holds what
\* the source held: of a file the content, of a directory the entries.
C21_CopyMoveKeepsData ==
  [][ (vfsCall'.op \in {"cp", "mv"} /\ vfsCall'.ok) =>
        LET srcNode == getNode(tree, currentPath, vfsCall'.path)
            destNode == getNode(tree', currentPath, vfsCall'.dest)
            srcKey == NodeKey(resolvePath(currentPath, vfsCall'.path))
            destKey == NodeKey(resolvePath(currentPath, vfsCall'.dest))
        IN  /\ destNode # Null
            /\ destNode.type = srcNode.type
            /\ srcNode.type = "file" =>
                  vfsReadFile(tree', currentPath, vfsCall'.dest)
                    = [isNull |-> FALSE, content |-> srcNode.content]
            /\ srcNode.type = "directory" =>
                  \A q \in Children(tree, srcKey) :
                    /\ Append(destKey, q[Len(q)]) \in DOMAIN tree'
                    /\ tree'[Append(destKey, q[Len(q)])].type = tree[q].type
                    /\ tree'[Append(destKey, q[Len(q)])].content = tree[q].content ]_vars

\* C22: after any operations of the VFS the tree has exactly one node of
\* empty name, the root, which has no parent.
C22_OneNamelessNode ==
  /\ tree[<<>>].name = <<>>
  /\ tree[<<>>].parent = <<>>
  /\ \A q \in DOMAIN tree : tree[q].name = <<>> => q = <<>>

\* The place of the parent of the node at the place q.
ParentKey(q) == SubSeq(q, 1, Len(q) - 1)

\* C23: every node but the root is held by its parent under its own name,
\* refers back to that parent, has no '/' in its name, and is not held by a
\* file.
C23_TreeWellFormed ==
  \A q \in DOMAIN tree \ { <<>> } :
    /\ ParentKey(q) \in DOMAIN tree
    /\ tree[q].name = q[Len(q)]
    /\ tree[q].parent = << ParentKey(q) >>
    /\ \A i \in 1..Len(tree[q].name) : tree[q].name[i] # "/"
    /\ tree[ParentKey(q)].type = "directory"

\* A copy has put a file into a directory that a copy made.
C23_Witness ==
  /\ vfsCall.op = "cp" /\ vfsCall.ok /\ vfsCall.path # vfsCall.dest
  /\ vfsCall.path = <<"/","a">>
  /\ << <<"b">> >> \in DOMAIN tree
  /\ tree[<< <<"b">> >>].type = "file"
  /\ tree[<< <<"b">> >>].content = <<"s">>

\* The call of execute a step of the session makes fails for a user error:
\* an operand is missing, or the method of the VFS the handler calls with an
\* operand returns false.
UserError(d) ==
  \/ /\ d.command \in { <<"m","k","d","i","r">>, <<"t","o","u","c","h">> }
     /\ d.context.args = <<>>
  \/ /\ d.command = <<"m","k","d","i","r">>
     /\ \E i \in DOMAIN d.context.args :
          ~ vfsMkdir(tree, currentPath, d.context.args[i]).ok
  \/ /\ d.command = <<"t","o","u","c","h">>
     /\ \E i \in DOMAIN d.context.args :
          ~ vfsWriteFile(tree, currentPath, d.context.args[i], <<>>).ok
  \/ /\ d.command = <<"c","d">>
     /\ ~ cdExecute(d.context, tree, currentPath).currentPath
           = (IF d.context.args # <<>> THEN resolvePath(currentPath, d.context.args[1])
              ELSE GuestHome)

\* C24: a call of a built-in command that fails for a user error writes an
\* error line that starts with the command name and returns a status other
\* than 0.
C24_UserErrorReported ==
  [][ (session' # session /\ UserError(Dispatch(input', env, commands, currentPath))) =>
        LET c == session'[Len(session')]
            d == Dispatch(input', env, commands, currentPath)
        IN  /\ c.status # 0
            /\ \E i \in DOMAIN c.out :
                  /\ c.out[i].op = "error"
                  /\ StartsWith(c.out[i].text, d.command \o <<":">>) ]_vars

\* The lines of the end-to-end session.
Scenario ==
  << <<"m","k","d","i","r"," ","/","h","o","m","e","/","g","u","e","s","t","/","p">>,
     <<"c","d"," ","/","h","o","m","e","/","g","u","e","s","t","/","p">>,
     <<"t","o","u","c","h"," ","a",".","t","x","t">>,
     <<"l","s">> >>

\* The session so far is the first lines of Scenario.
InScenario ==
  /\ Len(session) \in 1..Len(Scenario)
  /\ \A i \in DOMAIN session : session[i].input = Scenario[i]

\* C25: from a fresh session, mkdir /home/guest/p, cd /home/guest/p,
\* touch a.txt and ls in this order each return 0 and write no error line,
\* and ls lists a.txt.
C25_EndToEnd ==
  InScenario =>
    /\ \A i \in DOMAIN session :
         /\ session[i].status = 0
         /\ \A j \in DOMAIN session[i].out : session[i].out[j].op # "error"
    /\ Len(session) = Len(Scenario) =>
         session[Len(session)].out = << OutLine("println", <<"a",".","t","x","t">>) >>

\* The whole scenario has run and the file is in the new directory.
C25_Witness ==
  /\ InScenario
  /\ Len(session) = Len(Scenario)
  /\ currentPath = <<"/","h","o","m","e","/","g","u","e","s","t","/","p">>
  /\ << <<"h","o","m","e">>, <<"g","u","e","s","t">>, <<"p">>, <<"a",".","t","x","t">> >> \in DOMAIN tree

\* C26: when the shell dispatches a committed line that is not empty, the
\* hook is called once with that line, and the line is dispatched.
C26_HookCalledOnDispatch ==
  [][ Len(pending') > Len(pending) =>
        /\ Len(exam'.observed) = Len(exam.observed) + 1
        /\ exam'.observed[Len(exam'.observed)]
             \in { inputBuffer, CommittedLine(inputBuffer) } ]_vars

\* C27: a call of ExamSystem.onCommand changes neither the tree, nor the
\* current path, nor the global environment.
C27_HookObservesOnly ==
  [][ exam'.observed # exam.observed => UNCHANGED <<tree, currentPath, env>> ]_vars

RECURSIVE Classify(_, _, _)
\* What each character of s is, read from the left with the quote that is
\* open and whether a backslash came just before: "free" for white space
\* outside quotes, "backslash" for a backslash that escapes, "delimiter" for
\* a quote that opens or closes a span, "literal" for every other character.
Classify(s, inQuote, escaped) ==
  IF s = <<>> THEN <<>>
  ELSE IF escaped THEN <<"literal">> \o Classify(Tail(s), inQuote, FALSE)
  ELSE IF Head(s) = "\\" THEN <<"backslash">> \o Classify(Tail(s), inQuote, TRUE)
  ELSE IF inQuote = NoQuote /\ Head(s) \in {"\"", "'"}
    THEN <<"delimiter">> \o Classify(Tail(s), Head(s), FALSE)
  ELSE IF inQuote = Head(s) THEN <<"delimiter">> \o Classify(Tail(s), NoQuote, FALSE)
  ELSE IF inQuote = NoQuote /\ Head(s) \in WhiteSpace
    THEN <<"free">> \o Classify(Tail(s), inQuote, FALSE)
  ELSE <<"literal">> \o Classify(Tail(s), inQuote, FALSE)

RECURSIVE Segments(_, _, _)
\* The runs of literal characters of s between the free white space, the
\* empty runs left out; current is the run so far.
Segments(s, classes, current) ==
  IF s = <<>> THEN (IF current # <<>> THEN <<current>> ELSE <<>>)
  ELSE IF Head(classes) = "free"
    THEN (IF current # <<>> THEN <<current>> ELSE <<>>)
           \o Segments(Tail(s), Tail(classes), <<>>)
  ELSE IF Head(classes) = "literal"
    THEN Segments(Tail(s), Tail(classes), Append(current, Head(s)))
  ELSE Segments(Tail(s), Tail(classes), current)

RECURSIVE IsSubsequence(_, _)
\* The characters of a occur in b in their order.
IsSubsequence(a, b) ==
  IF a = <<>> THEN TRUE
  ELSE IF b = <<>> THEN FALSE
  ELSE IF Head(a) = Head(b) THEN IsSubsequence(Tail(a), Tail(b))
  ELSE IsSubsequence(a, Tail(b))

LongFlag(token) == Len(token) >= 2 /\ SubSeq(token, 1, 2) = <<"-","-">>

\* -xyz, longer than a single '-'
ShortFlags(token) == ~ LongFlag(token) /\ Len(token) >= 2 /\ token[1] = "-"

\* C29: of the tokens after the command name, --name gives the flag name,
\* -xyz gives the flags x, y and z, and every other token, a single '-'
\* included, is a positional argument, in the order of the input.
C29_Flags ==
  LET rest == IF tokenize(input) = <<>> THEN <<>> ELSE Tail(tokenize(input))
      parsed == parseInput(input)
      Positional(token) == ~ LongFlag(token) /\ ~ ShortFlags(token)
  IN  /\ parsed.args = SelectSeq(rest, Positional)
      /\ \A i \in DOMAIN rest :
           /\ LongFlag(rest[i]) => SubSeq(rest[i], 3, Len(rest[i])) \in parsed.flags
           /\ ShortFlags(rest[i]) => \A j \in 2..Len(rest[i]) : <<rest[i][j]>> \in parsed.flags
           /\ rest[i] = <<"-">> => \E k \in DOMAIN parsed.args : parsed.args[k] = <<"-">>
      /\ \A f \in parsed.flags :
           \E i \in DOMAIN rest :
             \/ LongFlag(rest[i]) /\ f = SubSeq(rest[i], 3, Len(rest[i]))
             \/ ShortFlags(rest[i]) /\ \E j \in 2..Len(rest[i]) : f = <<rest[i][j]>>
      /\ LET example == parseInput(<<"r","m"," ","-","r","f"," ","/","t","m","p","/","x">>)
         IN  /\ example.flags = { <<"r">>, <<"f">> }
             /\ example.args = << <<"/","t","m","p","/","x">> >>

\* ls was run with the flags a and b and the arguments - and b.
C29_Witness ==
  /\ input = <<"l","s"," ","-","a","b"," ","-"," ","b">>
  /\ call.state = "fulfilled"
  /\ call.handler
  /\ call.context.flags = { <<"a">>, <<"b">> }
  /\ call.context.args = << <<"-">>, <<"b">> >>

\* The code units of the character that ends at offset cursor of buffer.
UnitsBefore(buffer, cursor) ==
  IF cursor >= 2 /\ SubSeq(buffer, cursor - 1, cursor) = Astral THEN 2 ELSE 1

\* The code units of the character that starts at offset cursor of buffer.
UnitsAfter(buffer, cursor) ==
  IF cursor + 2 <= Len(buffer) /\ SubSeq(buffer, cursor + 1, cursor + 2) = Astral
    THEN 2 ELSE 1

\* The columns a terminal shows the character of buffer in that begins at
\* offset from + 1 and has the given number of code units: two for an
\* ideograph, in or outside the Basic Multilingual Plane.
ColumnsOf(buffer, from, units) ==
  IF units = 2 \/ buffer[from + 1] \in WideChars THEN 2 ELSE 1

\* The offset cursor of buffer is between two characters.
BetweenCharacters(buffer, cursor) ==
  ~ (cursor >= 1 /\ cursor < Len(buffer) /\ SubSeq(buffer, cursor, cursor + 1) = Astral)

\* C30: Cursor Left (Right) moves the cursor by exactly one character,
\* unless it is at offset 0 (at the end of the buffer), where nothing
\* happens; the movement written to the terminal is 2 columns when the
\* character crossed is a wide (CJK) character and 1 column otherwise.
C30_CursorMove ==
  [][ /\ lastEvent' = "left" /\ BetweenCharacters(inputBuffer, cursorPosition) =>
           IF cursorPosition = 0
             THEN UNCHANGED <<inputBuffer, cursorPosition, termColumn>>
             ELSE LET units == UnitsBefore(inputBuffer, cursorPosition)
                  IN  /\ inputBuffer' = inputBuffer
                      /\ cursorPosition' = cursorPosition - units
                      /\ termColumn' = termColumn
                            - ColumnsOf(inputBuffer, cursorPosition - units, units)
      /\ lastEvent' = "right" /\ BetweenCharacters(inputBuffer, cursorPosition) =>
           IF cursorPosition >= Len(inputBuffer)
             THEN UNCHANGED <<inputBuffer, cursorPosition, termColumn>>
             ELSE LET units == UnitsAfter(inputBuffer, cursorPosition)
                  IN  /\ inputBuffer' = inputBuffer
                      /\ cursorPosition' = cursorPosition + units
                      /\ termColumn' = termColumn
                            + ColumnsOf(inputBuffer, cursorPosition, units) ]_vars

\* C31: after every event handled in idle state that shows the line again
\* (insert, backspace, delete, cursor left and right, history up and down,
\* clear-line, clear-screen, Tab with several candidates), the terminal's
\* cursor column is the prompt's display width plus the display width of the
\* buffer text before the cursor offset.
C31_ColumnFollowsCursor ==
  [][ \/ lastEvent' \in {"insert", "backspace", "delete", "left", "right",
                         "up", "down", "key"}
      \/ /\ lastEvent' = "tab"
         /\ Cardinality(complete(inputBuffer, commands, tree, currentPath)) > 1
      => termColumn' = ColumnOf(inputBuffer', cursorPosition') ]_vars

\* C32: in every reachable state of the editor, after any sequence of input
\* events and command completions, the cursor offset is at least 0 and at
\* most the length of the buffer.
C32_CursorInBuffer ==
  /\ 0 <= cursorPosition
  /\ cursorPosition <= Len(inputBuffer)

\* After a command has completed, two characters are typed and the cursor is
\* moved between them.
C32_Witness ==
  /\ commandHistory # <<>>
  /\ ~ isProcessing
  /\ Len(inputBuffer) = 2
  /\ cursorPosition = 1

\* The browse cursor is -1 or an index of the history.
BrowseCursorInRange ==
  /\ historyIndex \in {-1} \cup (0 .. Len(commandHistory) - 1)
  /\ historyIndex # -1 => commandHistory # <<>>

C34_CwdIsDirectory ==
  LET node == getNode(tree, currentPath, currentPath)
  IN  node # Null /\ node.type = "directory"

\* C35: cp(src, dest, true) terminates for every src and dest and creates
\* finitely many nodes, also when dest lies inside the directory src: a call
\* copies each node its source held when it was called at most once, so it
\* never has more frames than the source held nodes, and it makes no more
\* nodes than that.
C35_CopyTerminates ==
  copy.frames # <<>> =>
    /\ Len(copy.frames) <= copy.source
    /\ Cardinality(DOMAIN tree) <= copy.nodes + copy.source

\* C36: every commit, once its processing has finished, leaves the buffer
\* empty and the cursor at 0, also when the line committed is exit and when
\* the buffer holds only spaces.
C36_CommitClearsLine ==
  [][ (lastEvent' \in {"enter", "resume"} /\ ~ isProcessing') =>
        /\ inputBuffer' = <<>>
        /\ cursorPosition' = 0 ]_vars

\* C37: an input event that is neither printable text nor a recognized
\* control sequence, such as Page Up, leaves the buffer and the cursor
\* unchanged: the buffer only ever receives printable text, so it holds no
\* character with a code below 32.
C37_BufferPrintable ==
  \A i \in DOMAIN inputBuffer : inputBuffer[i] \notin ControlChars

\* C38: whenever Tab changes the buffer, the buffer before the Tab is a
\* prefix of the buffer after it, also when the buffer is a command name
\* followed only by flags, such as ls -l.
C38_TabExtends ==
  [][ (lastEvent' = "tab" /\ inputBuffer' # inputBuffer) =>
        StartsWith(inputBuffer', inputBuffer) ]_vars

\* The fields isInExam, activeExam and examHistory agree: isInExam is true
\* exactly when activeExam is set, and with no exam active nothing is
\* recorded.
ExamFieldsAgree ==
  /\ exam.isInExam <=> exam.activeExam # <<>>
  /\ Len(exam.activeExam) <= 1
  /\ ~ exam.isInExam => exam.examHistory = <<>>

\* C39: at most one exam is active at a time: isInExam is true exactly when
\* activeExam is set, the recorded history is empty whenever no exam is
\* active, and a call of startExam made while an exam is active leaves the
\* active exam and the recorded history as they were.
C39_OneExamActive ==
  /\ []ExamFieldsAgree
  /\ [][ (exam'.called = "startExam" /\ exam.isInExam) =>
           /\ exam'.activeExam = exam.activeExam
           /\ exam'.examHistory = exam.examHistory ]_vars

\* startExam was called with the Git exam active and a line recorded, and
\* both are still there.
C39_Witness ==
  /\ exam.called = "startExam"
  /\ exam.isInExam
  /\ exam.activeExam = << GitExam >>
  /\ exam.examHistory # <<>>

\* C40: in the Git workflow exam, the session git init (the trigger), git
\* add of a file, git commit -m with a message (the submit), each passed to
\* onCommand of the attached ExamSystem in that order, is graded as passed.
C40_GitSessionPasses ==
  [][ ( /\ exam.attached
        /\ exam.isInExam
        /\ exam.observed = SubSeq(GitSession, 1, 2)
        /\ exam'.observed = GitSession ) =>
        (exam'.result.graded /\ exam'.result.passed) ]_vars

====
